---- MODULE Spec2Model ----
(***************************************************************************)
(* A model of the PREPL client of telegram-clojure-repl-bot                *)
(* (src/repl/client.go): NewClient's dial loops, the locked exchange of    *)
(* Eval / LoadFile / Shutdown, the decoding of a reply into records and    *)
(* the rendering of a batch of records.                                    *)
(*                                                                         *)
(* Texts (Go strings and byte slices) are sequences of units.  A unit is   *)
(* a TLA+ string: one character ("h", " ", "\n"), or one lexeme the model  *)
(* never has to look into (a whole EDN map sent by the backend, a piece    *)
(* of one of the markers cleanse removes).                                 *)
(***************************************************************************)
EXTENDS Integers, Sequences, FiniteSets, TLC

\* ------------------------------------------------------------------------
\* Program constants (src/repl/client.go:22-29) and bounds of the model

replConnectTimeoutSeconds == 10
replBootupTimeoutSeconds == 60
numRetries == 10

\* longest reply, in lines, the decoding specification draws
MaxLines == 3
\* longest batch of records the rendering specification draws
MaxBatch == 2
\* most unread bytes (units) the backend may have in flight
MaxPending == 4

\* ------------------------------------------------------------------------
\* Texts

NL == "\n"
SP == " "
WhiteSpace == {" ", "\n", "\t", "\r"}

RECURSIVE TrimLeft(_)
TrimLeft(s) ==
    IF s # <<>> /\ Head(s) \in WhiteSpace THEN TrimLeft(Tail(s)) ELSE s

RECURSIVE TrimRight(_)
TrimRight(s) ==
    IF s # <<>> /\ s[Len(s)] \in WhiteSpace
    THEN TrimRight(SubSeq(s, 1, Len(s) - 1))
    ELSE s

\* variant: the fragment is not trimmed
TrimSpaceNone(s) == s

\* strings.TrimSpace
TrimSpace(s) == TrimRight(TrimLeft(s))

IsPrefix(p, s) == Len(p) <= Len(s) /\ SubSeq(s, 1, Len(p)) = p

\* bytes.Split(s, sep) for a one-byte separator: n separators give n+1 pieces
RECURSIVE SplitFrom(_, _, _)
SplitFrom(s, sep, cur) ==
    IF s = <<>> THEN <<cur>>
    ELSE IF Head(s) = sep THEN <<cur>> \o SplitFrom(Tail(s), sep, <<>>)
    ELSE SplitFrom(Tail(s), sep, Append(cur, Head(s)))

Split(s, sep) == SplitFrom(s, sep, <<>>)

\* bytes.ReplaceAll(s, old, new), old non-empty: leftmost, non-overlapping
RECURSIVE ReplaceAll(_, _, _)
ReplaceAll(s, old, new) ==
    IF s = <<>> THEN <<>>
    ELSE IF IsPrefix(old, s)
         THEN new \o ReplaceAll(SubSeq(s, Len(old) + 1, Len(s)), old, new)
         ELSE <<Head(s)>> \o ReplaceAll(Tail(s), old, new)

\* strings.Join(msgs, "\n")
RECURSIVE Join(_)
Join(msgs) ==
    IF msgs = <<>> THEN <<>>
    ELSE IF Len(msgs) = 1 THEN msgs[1]
    ELSE msgs[1] \o <<NL>> \o Join(Tail(msgs))

\* ------------------------------------------------------------------------
\* cleanse (src/repl/client.go:323-346)

invalidStrings ==
    << <<"#:", "clojure.error">>,
       <<"#:", "clojure.spec.alpha">>,
       <<"#", "object">> >>

HexDigits == {"1", "F"}

RECURSIVE HexRun(_)
HexRun(s) ==
    IF s # <<>> /\ Head(s) \in HexDigits THEN 1 + HexRun(Tail(s)) ELSE 0

\* reHex.ReplaceAllString(s, \"$1\") with reHex = (0x[0-9a-fA-F]+)
RECURSIVE ReplaceHex(_)
ReplaceHex(s) ==
    IF s = <<>> THEN <<>>
    ELSE IF Head(s) = "0x" /\ HexRun(Tail(s)) > 0
         THEN LET k == HexRun(Tail(s))
              IN  <<"\\", "\"">> \o SubSeq(s, 1, k + 1) \o <<"\\", "\"">>
                  \o ReplaceHex(SubSeq(s, k + 2, Len(s)))
         ELSE <<Head(s)>> \o ReplaceHex(Tail(s))

cleanse(original) ==
    ReplaceHex(
        ReplaceAll(
            ReplaceAll(
                ReplaceAll(original, invalidStrings[1], <<>>),
                invalidStrings[2], <<>>),
            invalidStrings[3], <<>>))

\* ------------------------------------------------------------------------
\* Response (src/repl/client.go:41-50) and the lines a backend sends

V42 == <<"4", "2">>
VHello == <<"h", "e", "l", "l", "o", "\n">>
VUser == <<"u", "s", "e", "r">>
VForm == <<"(", "f", ")">>
\* the :val of an exception record: an EDN map with a :cause string
VCause == <<"{", ":cause", "\"", " ", "b", "o", "o", "m", "\n", "\"", "}">>
\* a :val that is no EDN map
VRaw == <<"o", "o", "p", "s", " ">>

FieldNames ==
    {"Tag", "Value", "Namespace", "Milliseconds", "Form", "Exception", "Message"}

\* the zero value of the struct (var r Response)
ZeroResponse ==
    [Tag |-> "", Value |-> <<>>, Namespace |-> <<>>, Milliseconds |-> 0,
     Form |-> <<>>, Exception |-> FALSE, Message |-> <<>>]

\* One unit of the wire per EDN map the backend prints.  A prepl prints
\* :ns, :ms and :form only in :ret messages, and :exception only when true.
GoodLines == {"RET", "EXC", "OUT"}
\* a line the EDN parser rejects
BadLines == {"BAD"}
LineUnits == GoodLines \cup BadLines

\* the keys an EDN map carries, as struct fields (the edn:"..." tags)
LineFields(u) ==
    CASE u = "RET" -> [Tag |-> "ret", Value |-> V42, Namespace |-> VUser,
                       Milliseconds |-> 1, Form |-> VForm]
      [] u = "EXC" -> [Tag |-> "ret", Value |-> VCause, Namespace |-> VUser,
                       Milliseconds |-> 2, Form |-> VForm, Exception |-> TRUE]
      [] u = "OUT" -> [Tag |-> "out", Value |-> VHello]

\* edn.Unmarshal(line, &r): reads the first value of the line; a map sets
\* the fields whose keys it carries and leaves every other field of r as it
\* was; a line that does not parse leaves r as it was and returns an error.
UnmarshalMerge(fields, r) ==
    [f \in FieldNames |-> IF f \in DOMAIN fields THEN fields[f] ELSE r[f]]

Unmarshal(line, r) ==
    LET t == TrimLeft(line)
    IN  IF t # <<>> /\ Head(t) \in GoodLines
        THEN [err |-> "nil", r |-> UnmarshalMerge(LineFields(Head(t)), r)]
        ELSE [err |-> "errUnmarshal", r |-> r]

\* One iteration of the loop of sendAndRecv (src/repl/client.go:263-274)
\* over a state [responses, err, r].
DecodeLine(st, line) ==
    IF Len(TrimSpace(line)) <= 0
    THEN st
    ELSE LET u == Unmarshal(line, st.r)
         IN  IF u.err = "nil"
             THEN [responses |-> Append(st.responses, u.r), err |-> "nil", r |-> u.r]
             ELSE [responses |-> st.responses, err |-> u.err, r |-> u.r]

RECURSIVE DecodeLines(_, _)
DecodeLines(st, lines) ==
    IF lines = <<>> THEN st
    ELSE DecodeLines(DecodeLine(st, Head(lines)), Tail(lines))

\* sendAndRecv after sendAndRecvBytes returned (bts, err)
\* (src/repl/client.go:257-278)
sendAndRecvDecode(bts, err) ==
    LET st0 == [responses |-> <<>>, err |-> err, r |-> ZeroResponse]
    IN  IF err = "nil" THEN DecodeLines(st0, Split(bts, NL)) ELSE st0

\* ------------------------------------------------------------------------
\* RespToString (src/repl/client.go:280-321)

\* edn.Unmarshal([]byte(r.Value), &exception): the value must be an EDN map;
\* Cause is its :cause string, or empty when the map has no :cause.
UnmarshalException(val) ==
    LET t == TrimSpace(val)
        body == SubSeq(t, 2, Len(t) - 1)
    IN  IF Len(t) >= 2 /\ t[1] = "{" /\ t[Len(t)] = "}"
        THEN IF body = <<>>
             THEN [err |-> "nil", Cause |-> <<>>]
             ELSE IF Len(body) >= 3 /\ body[1] = ":cause" /\ body[2] = "\""
                     /\ body[Len(body)] = "\""
                  THEN [err |-> "nil", Cause |-> SubSeq(body, 3, Len(body) - 1)]
                  ELSE [err |-> "errUnmarshal", Cause |-> <<>>]
        ELSE [err |-> "errUnmarshal", Cause |-> <<>>]

\* fmt.Sprintf("%s=> %s", r.Namespace, strings.TrimSpace(r.Value))
FormatRet(r) == r.Namespace \o <<"=", ">", " ">> \o TrimSpace(r.Value)

\* fmt.Sprintf("failed to unmarshal exception value: %s", err)
ErrStrException == <<"failed to unmarshal exception value: ", "errUnmarshal">>

\* fmt.Sprintf of the "unhandled <tag> response: <record>" text (line 310)
ErrStrUnhandled(r) == <<"unhandled ", r.Tag, " response">>

\* variant: no switch on the tag, the diagnostic text for every record
TagFragmentNoSwitch(r, other) == other

\* the switch on r.Tag of both branches (lines 294-301 and 304-315)
TagFragment(r, other) ==
    CASE r.Tag = "ret" -> FormatRet(r)
      [] r.Tag \in {"out", "err"} -> TrimSpace(r.Value)
      [] OTHER -> other

\* the body of the loop: the message one record appends to msgs
RenderOne(r) ==
    IF r.Exception
    THEN LET e == UnmarshalException(r.Value)
         IN  IF e.err = "nil"
             THEN TrimSpace(e.Cause)
             ELSE TagFragment(r, ErrStrException)
    ELSE TagFragment(r, ErrStrUnhandled(r))

\* ------------------------------------------------------------------------
\* The nREPL client (src/unnamed/part_000)

\* strings.Join(msgs, sep)
RECURSIVE JoinWith(_, _)
JoinWith(msgs, sep) ==
    IF msgs = <<>> THEN <<>>
    ELSE IF Len(msgs) = 1 THEN msgs[1]
    ELSE msgs[1] \o sep \o JoinWith(Tail(msgs), sep)

\* what bencode.Decode returns: a string, an int64, a []interface{} or a
\* map[string]interface{}
\* map[string]interface{} with no key
NoMap == [k \in {} |-> k]
\* a value of the given kind; the field of its kind holds what it carries
BValue(kind) ==
    [kind |-> kind, str |-> <<>>, int |-> 0, items |-> <<>>, map |-> NoMap]
BString(s) == [BValue("string") EXCEPT !.str = s]
BInt(i) == [BValue("int64") EXCEPT !.int = i]
BList(l) == [BValue("list") EXCEPT !.items = l]
BMap(m) == [BValue("map") EXCEPT !.map = m]

DigitChars == <<"0", "1", "2", "3", "4", "5", "6", "7", "8", "9">>

RECURSIVE FormatNat(_)
FormatNat(n) ==
    IF n < 10 THEN <<DigitChars[n + 1]>>
    ELSE FormatNat(n \div 10) \o <<DigitChars[(n % 10) + 1]>>

\* fmt.Sprintf("%d", i)
FormatInt(i) == IF i < 0 THEN <<"-">> \o FormatNat(-i) ELSE FormatNat(i)

\* fmt.Sprintf("%v", v) of a string, an integer, or a list of them
RECURSIVE FormatV(_)
FormatV(v) ==
    CASE v.kind = "string" -> v.str
      [] v.kind = "int64" -> FormatInt(v.int)
      [] v.kind = "list" ->
            <<"[">> \o JoinWith([i \in 1..Len(v.items) |-> FormatV(v.items[i])],
                                <<SP>>) \o <<"]">>

\* the fields of Resp (lines 50-60)
RespFields ==
    {"Ns", "Out", "Session", "Value", "Ex", "RootEx", "Op", "Status", "Err"}

\* Resp{}: empty strings and a nil Status
ZeroResp == [f \in RespFields |-> <<>>]

\* respKeyMaps as init builds it from the name tags (lines 68-85)
respKeyMaps ==
    [k \in {"ns", "out", "session", "value", "ex", "root-ex", "op", "status",
            "err"} |->
        CASE k = "ns" -> "Ns"
          [] k = "out" -> "Out"
          [] k = "session" -> "Session"
          [] k = "value" -> "Value"
          [] k = "ex" -> "Ex"
          [] k = "root-ex" -> "RootEx"
          [] k = "op" -> "Op"
          [] k = "status" -> "Status"
          [] k = "err" -> "Err"]

\* the type of a field of Resp, as the kind of the decoded value it takes
FieldKind(name) == IF name = "Status" THEN "list" ELSE "string"

\* structFieldValue.Set(val) (line 321): what the field holds afterwards
FieldValue(name, value) == IF name = "Status" THEN value.items ELSE value.str

\* variant: a response with a value is not erroneous
HasErrorUnlessValue(r) == Len(r.Status) > 0 /\ r.Value = <<>>

\* Resp.HasError (lines 62-65)
HasError(r) == Len(r.Status) > 0

\* _setRespField (lines 304-324): the type of the value must be the type of
\* the field
setRespFieldFails(name, value) == FieldKind(name) # value.kind

\* fillRespStruct (lines 288-299): every key of m that respKeyMaps knows
\* sets its field; the first value of another type than its field ends the
\* loop with an error.  The keys of a map are visited in no fixed order:
\* before is the set of keys visited before the one that failed.
fillRespStruct(s, m, before) ==
    LET known == {k \in DOMAIN m : k \in DOMAIN respKeyMaps}
        bad == {k \in known : setRespFieldFails(respKeyMaps[k], m[k])}
        copied == IF bad = {} THEN known ELSE (known \ bad) \cap before
        keyOf(f) == CHOOSE k \in copied : respKeyMaps[k] = f
    IN  [err |-> IF bad = {} THEN "nil" ELSE "errFill",
         s |-> [f \in RespFields |->
                   IF \E k \in copied : respKeyMaps[k] = f
                   THEN FieldValue(f, m[keyOf(f)])
                   ELSE s[f]]]

\* variant: a top-level list is not a supported shape
DecodedToRespNoList(decoded, before) ==
    CASE decoded.kind = "string" ->
            [received |-> [ZeroResp EXCEPT !.Value = decoded.str], err |-> "nil"]
      [] decoded.kind = "int64" ->
            [received |-> [ZeroResp EXCEPT !.Value = FormatInt(decoded.int)],
             err |-> "nil"]
      [] decoded.kind = "list" ->
            [received |-> ZeroResp, err |-> "nil"]
      [] decoded.kind = "map" ->
            LET filled == fillRespStruct(ZeroResp, decoded.map, before)
            IN  IF filled.err = "nil"
                THEN [received |-> filled.s, err |-> "nil"]
                ELSE [received |-> ZeroResp, err |-> filled.err]

\* variant: the struct is returned as far as it was filled
DecodedToRespPartial(decoded, before) ==
    CASE decoded.kind = "string" ->
            [received |-> [ZeroResp EXCEPT !.Value = decoded.str], err |-> "nil"]
      [] decoded.kind = "int64" ->
            [received |-> [ZeroResp EXCEPT !.Value = FormatInt(decoded.int)],
             err |-> "nil"]
      [] decoded.kind = "list" ->
            [received |-> [ZeroResp EXCEPT !.Value = FormatV(decoded)],
             err |-> "nil"]
      [] decoded.kind = "map" ->
            LET filled == fillRespStruct(ZeroResp, decoded.map, before)
            IN  [received |-> filled.s, err |-> filled.err]

\* the type switch of sendAndRecv (lines 256-276): response is a local
\* struct, and after an error of fillRespStruct the function goes on to
\* return Resp{}, err
DecodedToResp(decoded, before) ==
    CASE decoded.kind = "string" ->
            [received |-> [ZeroResp EXCEPT !.Value = decoded.str], err |-> "nil"]
      [] decoded.kind = "int64" ->
            [received |-> [ZeroResp EXCEPT !.Value = FormatInt(decoded.int)],
             err |-> "nil"]
      [] decoded.kind = "list" ->
            [received |-> [ZeroResp EXCEPT !.Value = FormatV(decoded)],
             err |-> "nil"]
      [] decoded.kind = "map" ->
            LET filled == fillRespStruct(ZeroResp, decoded.map, before)
            IN  IF filled.err = "nil"
                THEN [received |-> filled.s, err |-> "nil"]
                ELSE [received |-> ZeroResp, err |-> filled.err]

\* sendAndRecv after its read loop (lines 253-283): reply is what the buffer
\* holds, err the error of the last Read or of the write.  An empty buffer
\* returns Resp{} and err; bytes that are no bencode return Resp{} and the
\* error of bencode.Decode.
nreplSendAndRecv(reply, err, before) ==
    CASE reply.kind = "empty" -> [received |-> ZeroResp, err |-> err]
      [] reply.kind = "garbage" -> [received |-> ZeroResp, err |-> "errDecode"]
      [] OTHER -> DecodedToResp(reply, before)

\* RespToString of the nREPL client (lines 327-364)
nreplRespToString(received) ==
    IF HasError(received)
    THEN LET msgs == [i \in 1..Len(received.Status) |->
                         FormatV(received.Status[i])]
             status == JoinWith(msgs, <<",", SP>>)
         IN  IF received.Ex = received.RootEx
             THEN status \o <<":", SP>> \o received.Ex \o <<NL>>
             ELSE status \o <<":", SP>> \o received.Ex \o <<SP, "(">>
                         \o received.RootEx \o <<")", NL>>
    ELSE LET ns == IF Len(received.Ns) > 0
                   THEN <<received.Ns \o <<"=", ">", SP>> \o received.Value>>
                   ELSE <<>>
             out == IF Len(received.Out) > 0 THEN <<received.Out>> ELSE <<>>
             er == IF Len(received.Err) > 0 THEN <<received.Err>> ELSE <<>>
         IN  JoinWith(ns \o out \o er, <<NL>>)

\* ------------------------------------------------------------------------
\* State

VARIABLES
    conn,       \* c.conn: "nil", "open" or "closed"
    mutex,      \* the holder of the Client's sync.Mutex, or NoThread
    th,         \* per goroutine: its position in Eval / LoadFile / Shutdown
    pending,    \* bytes the backend has sent and the client has not read
    expired,    \* the read deadline of the connection has passed
    eof,        \* the backend has closed its end of the connection
    wire,       \* the last request written to the connection
    nc,         \* NewClient: its position and its loop counters
    dec,        \* sendAndRecv's loop over the lines of one reply
    ren,        \* RespToString's loop over one batch
    bot,        \* main: the bot's start, its update handler, the signal goroutine
    nrepl,      \* the nREPL client: one reply on its way to the chat message
    upd,        \* handleUpdate: one update on its way to the chat reply
    cln         \* cleanse: its loop over invalidStrings and the hex step

vars ==
    <<conn, mutex, th, pending, expired, eof, wire, nc, dec, ren, bot, nrepl, upd,
      cln>>

Threads == {"t1", "t2"}
NoThread == "none"

\* Operations and commands (src/repl/client.go:31-39)
CommandRequireRepl == <<"(require '[clojure.repl :refer :all])">>
CommandSetPrintLength == <<"(set! *print-length* 20)">>
CommandShutdown == <<"(System/exit 0)">>

Paths == {"/tmp/a.clj"}
\* variant: the path is not quoted
LoadFileRequestBare(path) == <<"(load-file ", path, ")">>

\* fmt.Sprintf of (load-file "%s") (line 179)
LoadFileRequest(path) == <<"(load-file \"", path, "\")">>
Codes == {<<"(+ 40 2)">>} \cup {LoadFileRequest(p) : p \in Paths}

\* what a backend may answer to one request
Replies ==
    { <<>>,
      <<"RET", NL>>,
      <<"OUT", NL, "RET", NL>>,
      <<"OUT", NL, "BAD", NL>> }

IdleThread ==
    [pc |-> "idle", op |-> "none", request |-> <<>>, n |-> 0, buffer |-> <<>>,
     err |-> "nil", readErr |-> "nil", bts |-> <<>>, responses |-> <<>>,
     wrote |-> FALSE, onlyTimeouts |-> TRUE, closed |-> FALSE, reads |-> <<>>,
     stale |-> 0]

\* NewClient has returned: the state of nc in a run that starts with a
\* constructed client
NcIdle ==
    [pc |-> "returned", proc |-> "running", i |-> 0, j |-> 0, k |-> 0,
     dials |-> 1, launches |-> 0, cmd |-> "none", connectFails |-> 0,
     connectOk |-> TRUE, bootFails |-> 0, cause |-> "none",
     evals |-> <<>>, initErrs |-> <<>>]
DecIdle ==
    [pc |-> "off", src |-> <<>>, lines |-> <<>>, idx |-> 0, responses |-> <<>>,
     err |-> "nil", r |-> ZeroResponse, msg |-> <<>>]
RenIdle ==
    [pc |-> "off", responses |-> <<>>, idx |-> 0, msgs |-> <<>>, out |-> <<>>]
\* main has not started the bot; the signal goroutine waits on its channel
BotIdle == [pc |-> "start", sigpc |-> "wait", sigbuf |-> 0, updates |-> 0]
\* cleanse is not running
ClnIdle == [pc |-> "off", original |-> <<>>, result |-> <<>>, i |-> 0]
\* no update is being handled
UpdIdle ==
    [pc |-> "off", hasMessage |-> FALSE, username |-> "nil", content |-> "none",
     text |-> "", path |-> "", request |-> <<>>, received |-> <<>>,
     err |-> "nil", msg |-> <<>>, typing |-> FALSE, calls |-> <<>>,
     downloads |-> 0, file |-> "none", removedAfter |-> "none",
     sent |-> <<>>]
\* no reply of an nREPL backend is being handled
NreplIdle ==
    [pc |-> "off", sends |-> BValue("empty"), reply |-> BValue("empty"),
     n |-> 0, err |-> "nil", expired |-> FALSE, eof |-> FALSE,
     wrote |-> FALSE, onlyTimeouts |-> TRUE,
     received |-> ZeroResp, msg |-> <<>>]

\* ------------------------------------------------------------------------
\* Eval, LoadFile, Shutdown (src/repl/client.go:152-207)

\* goroutine t of a running process stands at pc
At(t, pc) == nc.proc = "running" /\ th[t].pc = pc

\* a goroutine enters one of the three methods and reaches c.Lock()
Enter(t, op, request) ==
    /\ At(t, "idle")
    /\ th' = [th EXCEPT ![t] = [IdleThread EXCEPT !.pc = "lock", !.op = op,
                                                  !.request = request]]

Eval(t) ==
    /\ nc.pc = "returned"
    /\ \E code \in Codes : Enter(t, "Eval", code)
    /\ UNCHANGED <<conn, mutex, pending, expired, eof, wire, nc, dec, ren, bot, nrepl, upd, cln>>

LoadFile(t) ==
    /\ nc.pc = "returned"
    /\ \E path \in Paths : Enter(t, "LoadFile", LoadFileRequest(path))
    /\ UNCHANGED <<conn, mutex, pending, expired, eof, wire, nc, dec, ren, bot, nrepl, upd, cln>>

Shutdown(t) ==
    /\ nc.pc = "returned"
    /\ Enter(t, "Shutdown", CommandShutdown)
    /\ UNCHANGED <<conn, mutex, pending, expired, eof, wire, nc, dec, ren, bot, nrepl, upd, cln>>

\* variant: the method does not take the lock
LockFreeAlways(t) == TRUE

\* c.Lock() (lines 154, 173, 192)
LockFree(t) == mutex = NoThread

\* variant: Shutdown goes on without the lock
LockExceptShutdown(t) ==
    /\ At(t, "lock")
    /\ th[t].op = "Shutdown" \/ LockFree(t)
    /\ mutex' = t
    /\ th' = [th EXCEPT ![t].pc = "deadline"]
    /\ UNCHANGED <<conn, pending, expired, eof, wire, nc, dec, ren, bot, nrepl, upd, cln>>

\* c.Lock() returns when no other call holds the mutex
Lock(t) ==
    /\ At(t, "lock")
    /\ LockFree(t)
    /\ mutex' = t
    /\ th' = [th EXCEPT ![t].pc = "deadline"]
    /\ UNCHANGED <<conn, pending, expired, eof, wire, nc, dec, ren, bot, nrepl, upd, cln>>

\* variant: setting the deadline succeeds on a closed connection too
SetReadDeadlineIgnoresClosed(t) ==
    /\ At(t, "deadline")
    /\ expired' = FALSE
    /\ th' = [th EXCEPT ![t].pc = "write"]
    /\ UNCHANGED <<conn, mutex, pending, eof, wire, nc, dec, ren, bot, nrepl, upd, cln>>

\* c.conn.SetReadDeadline (lines 213-218): fails on a closed connection
SetReadDeadline(t) ==
    /\ At(t, "deadline")
    /\ IF conn = "open"
       THEN /\ expired' = FALSE
            /\ th' = [th EXCEPT ![t].pc = "write"]
       ELSE /\ expired' = expired
            /\ th' = [th EXCEPT ![t].pc = "decode", ![t].err = "errDeadline",
                                ![t].bts = <<>>]
    /\ UNCHANGED <<conn, mutex, pending, eof, wire, nc, dec, ren, bot, nrepl, upd, cln>>

\* variant: the read loop runs after a failed write too
WriteThenReadAlways(t) ==
    /\ At(t, "write")
    /\ \/ /\ wire' = th[t].request \o <<NL>>
          /\ \E reply \in Replies :
                /\ Len(pending) + Len(reply) <= MaxPending
                /\ pending' = pending \o reply
          /\ th' = [th EXCEPT ![t].pc = "read", ![t].wrote = TRUE,
                              ![t].stale = Len(pending)]
       \/ /\ th' = [th EXCEPT ![t].pc = "read", ![t].err = "errWrite"]
          /\ UNCHANGED <<wire, pending>>
    /\ UNCHANGED <<conn, mutex, expired, eof, nc, dec, ren, bot, nrepl, upd, cln>>

\* c.conn.Write([]byte(request + "\n")) (lines 224-225, 240-242); the
\* backend answers a request it received with any of Replies, sooner or later.
\* stale counts the bytes that earlier requests left unread in the stream:
\* the stream is read in order, so they come before the answer to this one.
Write(t) ==
    /\ At(t, "write")
    /\ \/ /\ wire' = th[t].request \o <<NL>>
          /\ \E reply \in Replies :
                /\ Len(pending) + Len(reply) <= MaxPending
                /\ pending' = pending \o reply
          /\ th' = [th EXCEPT ![t].pc = "read", ![t].wrote = TRUE,
                              ![t].stale = Len(pending)]
       \/ /\ th' = [th EXCEPT ![t].pc = "bytes", ![t].err = "errWrite"]
          /\ UNCHANGED <<wire, pending>>
    /\ UNCHANGED <<conn, mutex, expired, eof, nc, dec, ren, bot, nrepl, upd, cln>>

\* variant: a read replaces what the buffer held
AppendReadOverwrite(buffer, chunk) == chunk

\* buffer.Write(buf[:numRead]) (lines 230-232)
AppendRead(buffer, chunk) == buffer \o chunk

\* variant: the loop has no budget
AfterAttemptForever(n) == "read"

\* where the loop goes after an attempt that did not break (line 228)
AfterAttempt(n) == IF n + 1 < numRetries THEN "read" ELSE "bytes"

\* variant: the loop ends with the first read that returned bytes
ReadDataEndsLoop(t) ==
    /\ At(t, "read") /\ ~expired /\ ~eof
    /\ \E k \in 1..Len(pending) :
          /\ th' = [th EXCEPT ![t].buffer = AppendRead(@, SubSeq(pending, 1, k)),
                              ![t].reads = Append(@, SubSeq(pending, 1, k)),
                              ![t].n = @ + 1,
                              ![t].onlyTimeouts = FALSE,
                              ![t].pc = "bytes"]
          /\ pending' = SubSeq(pending, k + 1, Len(pending))
    /\ UNCHANGED <<conn, mutex, expired, eof, wire, nc, dec, ren, bot, nrepl, upd, cln>>

\* one attempt of the read loop (lines 228-239).  A read after the deadline
\* has passed times out, whatever has arrived; a read at the end of the
\* stream returns io.EOF.
ReadData(t) ==
    /\ At(t, "read") /\ ~expired /\ ~eof
    /\ \E k \in 1..Len(pending) :
          /\ th' = [th EXCEPT ![t].buffer = AppendRead(@, SubSeq(pending, 1, k)),
                              ![t].reads = Append(@, SubSeq(pending, 1, k)),
                              ![t].n = @ + 1,
                              ![t].onlyTimeouts = FALSE,
                              ![t].pc = AfterAttempt(th[t].n)]
          /\ pending' = SubSeq(pending, k + 1, Len(pending))
    /\ UNCHANGED <<conn, mutex, expired, eof, wire, nc, dec, ren, bot, nrepl, upd, cln>>

\* variant: every attempt gets a deadline of its own
ReadTimeoutRenews(t) ==
    /\ At(t, "read") /\ (expired \/ ~eof)
    /\ expired' = FALSE
    /\ th' = [th EXCEPT ![t].n = @ + 1, ![t].readErr = "errTimeout",
                        ![t].pc = AfterAttempt(th[t].n)]
    /\ UNCHANGED <<conn, mutex, pending, eof, wire, nc, dec, ren, bot, nrepl, upd, cln>>

\* a Read that returns a timeout (lines 229, 234): the deadline of line 214
\* is absolute, so it has passed for every later Read of the exchange
ReadTimeout(t) ==
    /\ At(t, "read") /\ (expired \/ ~eof)
    /\ expired' = TRUE
    /\ th' = [th EXCEPT ![t].n = @ + 1, ![t].readErr = "errTimeout",
                        ![t].pc = AfterAttempt(th[t].n)]
    /\ UNCHANGED <<conn, mutex, pending, eof, wire, nc, dec, ren, bot, nrepl, upd, cln>>

ReadEOF(t) ==
    /\ At(t, "read") /\ ~expired
    /\ eof' = TRUE
    /\ th' = [th EXCEPT ![t].n = @ + 1, ![t].readErr = "EOF",
                        ![t].onlyTimeouts = FALSE,
                        ![t].pc = AfterAttempt(th[t].n)]
    /\ UNCHANGED <<conn, mutex, pending, expired, wire, nc, dec, ren, bot, nrepl, upd, cln>>

\* variant: a read error that is neither a timeout nor io.EOF panics
ReadErrorPanics(t) ==
    /\ At(t, "read") /\ ~expired /\ ~eof
    /\ th' = [th EXCEPT ![t].n = @ + 1, ![t].readErr = "errRead",
                        ![t].onlyTimeouts = FALSE, ![t].pc = "bytes"]
    /\ nc' = [nc EXCEPT !.proc = "terminated", !.cause = "read"]
    /\ UNCHANGED <<conn, mutex, pending, expired, eof, wire, dec, ren, bot, nrepl, upd, cln>>

\* variant: a read error that is neither a timeout nor io.EOF does not
\* break the loop
ReadErrorContinues(t) ==
    /\ At(t, "read") /\ ~expired /\ ~eof
    /\ th' = [th EXCEPT ![t].n = @ + 1, ![t].readErr = "errRead",
                        ![t].onlyTimeouts = FALSE,
                        ![t].pc = AfterAttempt(th[t].n)]
    /\ UNCHANGED <<conn, mutex, pending, expired, eof, wire, nc, dec, ren, bot, nrepl, upd, cln>>

\* a read error that is neither a timeout nor io.EOF: break (lines 234-237)
ReadError(t) ==
    /\ At(t, "read") /\ ~expired /\ ~eof
    /\ th' = [th EXCEPT ![t].n = @ + 1, ![t].readErr = "errRead",
                        ![t].onlyTimeouts = FALSE, ![t].pc = "bytes"]
    /\ UNCHANGED <<conn, mutex, pending, expired, eof, wire, nc, dec, ren, bot, nrepl, upd, cln>>

\* variant: a hard read error is returned whatever was accumulated
BytesResultSurfacesReadError(buffer, err, readErr) ==
    IF readErr = "errRead"
    THEN [bts |-> <<>>, err |-> readErr]
    ELSE IF Len(buffer) > 0
         THEN [bts |-> cleanse(buffer), err |-> "nil"]
         ELSE [bts |-> <<>>, err |-> err]

\* the return of sendAndRecvBytes (lines 248-253): err is the error of the
\* write; the error of a read lives in readErr and is not returned
BytesResult(buffer, err, readErr) ==
    IF Len(buffer) > 0
    THEN [bts |-> cleanse(buffer), err |-> "nil"]
    ELSE [bts |-> <<>>, err |-> err]

ReturnBytes(t) ==
    /\ At(t, "bytes")
    /\ LET res == BytesResult(th[t].buffer, th[t].err, th[t].readErr)
       IN  th' = [th EXCEPT ![t].pc = "decode", ![t].bts = res.bts,
                            ![t].err = res.err]
    /\ UNCHANGED <<conn, mutex, pending, expired, eof, wire, nc, dec, ren, bot, nrepl, upd, cln>>

\* sendAndRecv decodes what sendAndRecvBytes returned (lines 257-278) and
\* returns into Eval / LoadFile (unlock next) or Shutdown (close next)
Decode(t) ==
    /\ At(t, "decode")
    /\ LET st == sendAndRecvDecode(th[t].bts, th[t].err)
       IN  th' = [th EXCEPT ![t].responses = st.responses, ![t].err = st.err,
                            ![t].pc = IF th[t].op = "Shutdown" THEN "close"
                                                               ELSE "unlock"]
    /\ UNCHANGED <<conn, mutex, pending, expired, eof, wire, nc, dec, ren, bot, nrepl, upd, cln>>

\* variant: Shutdown closes the connection only when the command succeeded
CloseOnlyOnSuccess(t) ==
    /\ At(t, "close")
    /\ conn' = IF th[t].err = "nil" THEN "closed" ELSE conn
    /\ th' = [th EXCEPT ![t].pc = "unlock", ![t].closed = (th[t].err = "nil")]
    /\ UNCHANGED <<mutex, pending, expired, eof, wire, nc, dec, ren, bot, nrepl, upd, cln>>

\* c.conn.Close() in Shutdown (lines 200-204)
Close(t) ==
    /\ At(t, "close")
    /\ conn' = "closed"
    /\ th' = [th EXCEPT ![t].pc = "unlock", ![t].closed = TRUE]
    /\ UNCHANGED <<mutex, pending, expired, eof, wire, nc, dec, ren, bot, nrepl, upd, cln>>

\* variant: initialize panics when Eval returns an error
AfterInitEvalPanics(n, err) ==
    IF err = "nil"
    THEN [n EXCEPT !.initErrs = Append(@, err)]
    ELSE [n EXCEPT !.initErrs = Append(@, err), !.proc = "terminated",
                   !.cause = "init"]

\* initialize after c.Eval(cmd) returned err (lines 146-148): an error is
\* logged and the loop goes on
AfterInitEval(n, err) == [n EXCEPT !.initErrs = Append(@, err)]

\* variant: a call that returns an error returns with the lock held
UnlockOnlyOnSuccess(t) ==
    /\ At(t, "unlock")
    /\ mutex' = IF th[t].err = "nil" THEN NoThread ELSE mutex
    /\ th' = [th EXCEPT ![t] = IdleThread]
    /\ nc' = IF nc.pc = "init" THEN AfterInitEval(nc, th[t].err) ELSE nc
    /\ UNCHANGED <<conn, pending, expired, eof, wire, dec, ren, bot, nrepl, upd, cln>>

\* c.Unlock() and the return of responses, err to the caller
\* (lines 166-168, 185-187, 206): at pc "unlock" the results are final;
\* the caller is initialize while NewClient runs
Unlock(t) ==
    /\ At(t, "unlock")
    /\ mutex' = NoThread
    /\ th' = [th EXCEPT ![t] = IdleThread]
    /\ nc' = IF nc.pc = "init" THEN AfterInitEval(nc, th[t].err) ELSE nc
    /\ UNCHANGED <<conn, pending, expired, eof, wire, dec, ren, bot, nrepl, upd, cln>>

\* the steps of Eval and LoadFile after the call
Transport(t) ==
    \/ Lock(t)
    \/ SetReadDeadline(t)
    \/ Write(t)
    \/ ReadData(t)
    \/ ReadTimeout(t)
    \/ ReadEOF(t)
    \/ ReadError(t)
    \/ ReturnBytes(t)
    \/ Decode(t)
    \/ Unlock(t)

\* and of Shutdown
Exchange(t) == Transport(t) \/ Close(t)

\* a constructed client: NewClient has returned with a connection
Init ==
    /\ conn = "open"
    /\ mutex = NoThread
    /\ th = [t \in Threads |-> IdleThread]
    /\ pending = <<>>
    /\ expired = FALSE
    /\ eof = FALSE
    /\ wire = <<>>
    /\ nc = NcIdle
    /\ dec = DecIdle
    /\ ren = RenIdle
    /\ bot = BotIdle
    /\ nrepl = NreplIdle
    /\ upd = UpdIdle
    /\ cln = ClnIdle

Next ==
    \E t \in Threads :
        \/ Eval(t)
        \/ LoadFile(t)
        \/ Shutdown(t)
        \/ Exchange(t)

Spec == Init /\ [][Next]_vars

\* ------------------------------------------------------------------------
\* NewClient (src/repl/client.go:70-137) and initialize (lines 139-150)

Constructor == "t1"

\* variant: every failed dial of the connect window launches
LastConnectAttemptAny(i) == TRUE

\* variant: the boot window never gives up
LastBootAttemptNever(j) == FALSE

\* i == (replConnectTimeoutSeconds - 1) (line 91)
LastConnectAttempt(i) == i = replConnectTimeoutSeconds - 1

\* i == (replBootupTimeoutSeconds - 1) (line 129)
LastBootAttempt(j) == j = replBootupTimeoutSeconds - 1

\* the i++ of the outer loop and its test (line 82)
NextConnect(n) ==
    [n EXCEPT !.i = @ + 1,
              !.pc = IF n.i + 1 < replConnectTimeoutSeconds THEN "connect"
                                                             ELSE "returned"]

\* one pass of the connect window (lines 82-93): a dial that succeeds
\* breaks out of the loop; the last one that fails launches the backend
ConnectDial ==
    /\ nc.proc = "running" /\ nc.pc = "connect"
    /\ \/ /\ conn' = "open"
          /\ nc' = [nc EXCEPT !.dials = @ + 1, !.connectOk = TRUE,
                              !.pc = "returned"]
       \/ /\ conn' = conn
          /\ LET failed == [nc EXCEPT !.connectFails = @ + 1]
             IN  nc' = IF LastConnectAttempt(nc.i)
                       THEN [failed EXCEPT !.launches = @ + 1, !.cmd = "running",
                                           !.pc = "boot", !.j = 0]
                       ELSE NextConnect(failed)
    /\ UNCHANGED <<mutex, th, pending, expired, eof, wire, dec, ren, bot, nrepl, upd, cln>>

\* one pass of the boot window (lines 115-132)
BootDial ==
    /\ nc.proc = "running" /\ nc.pc = "boot"
    /\ \/ /\ conn' = "open"
          /\ nc' = [nc EXCEPT !.dials = @ + 1, !.pc = "init", !.k = 0]
       \/ /\ conn' = conn
          /\ LET failed == [nc EXCEPT !.bootFails = @ + 1]
             IN  nc' = IF LastBootAttempt(nc.j)
                       THEN [failed EXCEPT !.proc = "terminated", !.cause = "boot"]
                       ELSE IF nc.j + 1 < replBootupTimeoutSeconds
                            THEN [failed EXCEPT !.j = @ + 1]
                            ELSE NextConnect(failed)
    /\ UNCHANGED <<mutex, th, pending, expired, eof, wire, dec, ren, bot, nrepl, upd, cln>>

\* variant: the print length is set before the helpers are required
InitCommandsSwapped == <<CommandSetPrintLength, CommandRequireRepl>>

\* the commands of initialize, in the order of the loop (lines 141-145)
InitCommands == <<CommandRequireRepl, CommandSetPrintLength>>

\* initialize evaluates the next command (lines 141-149); an error is logged
InitializeEval ==
    /\ nc.pc = "init"
    /\ nc.k < Len(InitCommands)
    /\ Enter(Constructor, "Eval", InitCommands[nc.k + 1])
    /\ nc' = [nc EXCEPT !.k = @ + 1,
                        !.evals = Append(@, InitCommands[nc.k + 1])]
    /\ UNCHANGED <<conn, mutex, pending, expired, eof, wire, dec, ren, bot, nrepl, upd, cln>>

\* initialize returns, the boot loop breaks, the outer loop goes on (line 126)
InitializeDone ==
    /\ nc.pc = "init"
    /\ nc.k = Len(InitCommands)
    /\ At(Constructor, "idle")
    /\ nc' = NextConnect(nc)
    /\ UNCHANGED <<conn, mutex, th, pending, expired, eof, wire, dec, ren, bot, nrepl, upd, cln>>

\* the goroutine of the launch (lines 99-110): cmd.Run() returns an error
\* and it panics, or returns nil and it logs
CmdPanic ==
    /\ nc.proc = "running" /\ nc.cmd = "running"
    /\ nc' = [nc EXCEPT !.cmd = "exited", !.proc = "terminated",
                        !.cause = "cmd"]
    /\ UNCHANGED <<conn, mutex, th, pending, expired, eof, wire, dec, ren, bot, nrepl, upd, cln>>

CmdExit ==
    /\ nc.proc = "running" /\ nc.cmd = "running"
    /\ nc' = [nc EXCEPT !.cmd = "exited"]
    /\ UNCHANGED <<conn, mutex, th, pending, expired, eof, wire, dec, ren, bot, nrepl, upd, cln>>

InitNewClient ==
    /\ conn = "nil"
    /\ mutex = NoThread
    /\ th = [t \in Threads |-> IdleThread]
    /\ pending = <<>>
    /\ expired = FALSE
    /\ eof = FALSE
    /\ wire = <<>>
    /\ nc = [pc |-> "connect", proc |-> "running", i |-> 0, j |-> 0, k |-> 0,
             dials |-> 0, launches |-> 0, cmd |-> "none", connectFails |-> 0,
             connectOk |-> FALSE, bootFails |-> 0, cause |-> "none",
             evals |-> <<>>, initErrs |-> <<>>]
    /\ dec = DecIdle
    /\ ren = RenIdle
    /\ bot = BotIdle
    /\ nrepl = NreplIdle
    /\ upd = UpdIdle
    /\ cln = ClnIdle

NextNewClient ==
    \/ ConnectDial
    \/ BootDial
    \/ InitializeEval
    \/ InitializeDone
    \/ CmdPanic
    \/ CmdExit
    \/ Transport(Constructor)

SpecNewClient == InitNewClient /\ [][NextNewClient]_vars

\* ------------------------------------------------------------------------
\* sendAndRecv's decoding, one line at a time, over every reply of up to
\* MaxLines lines; then the text handleUpdate makes of the result

\* RespToString as a whole: the loop and the join
RECURSIVE RenderAll(_)
RenderAll(responses) ==
    IF responses = <<>> THEN <<>>
    ELSE <<RenderOne(Head(responses))>> \o RenderAll(Tail(responses))

RespToString(responses) == Join(RenderAll(responses))

\* the default case of handleUpdate (src/main.go:209-215) followed by
\* strings.TrimSpace (line 241)
handleUpdateText(responses, err) ==
    TrimSpace(IF err = "nil" THEN RespToString(responses)
                             ELSE <<"error: ", err>>)

\* what a line of a reply may be: an EDN map, garbage, or blanks
LineKinds == LineUnits \cup {SP}

RECURSIVE SeqsUpTo(_, _)
SeqsUpTo(S, n) ==
    IF n = 0 THEN {<<>>}
    ELSE LET shorter == SeqsUpTo(S, n - 1)
         IN  shorter \cup {Append(q, x) : q \in shorter, x \in S}

\* the bytes of a reply: every line ends with a newline
RECURSIVE WireOf(_)
WireOf(ls) ==
    IF ls = <<>> THEN <<>> ELSE <<Head(ls), NL>> \o WireOf(Tail(ls))

InitDecode ==
    /\ conn = "open"
    /\ mutex = NoThread
    /\ th = [t \in Threads |-> IdleThread]
    /\ pending = <<>>
    /\ expired = FALSE
    /\ eof = FALSE
    /\ wire = <<>>
    /\ nc = NcIdle
    /\ ren = RenIdle
    /\ bot = BotIdle
    /\ nrepl = NreplIdle
    /\ upd = UpdIdle
    /\ cln = ClnIdle
    /\ \E ls \in SeqsUpTo(LineKinds, MaxLines) \ {<<>>} :
          dec = [DecIdle EXCEPT !.pc = "loop", !.src = ls,
                                !.lines = Split(cleanse(WireOf(ls)), NL)]

\* one iteration of the loop (src/repl/client.go:263-274)
DecodeNextLine ==
    /\ dec.pc = "loop"
    /\ dec.idx < Len(dec.lines)
    /\ LET st == DecodeLine([responses |-> dec.responses, err |-> dec.err,
                             r |-> dec.r], dec.lines[dec.idx + 1])
       IN  dec' = [dec EXCEPT !.idx = @ + 1, !.responses = st.responses,
                              !.err = st.err, !.r = st.r]
    /\ UNCHANGED <<conn, mutex, th, pending, expired, eof, wire, nc, ren, bot, nrepl, upd, cln>>

\* return responses, err (line 277), through Eval, into handleUpdate
DecodeReturn ==
    /\ dec.pc = "loop"
    /\ dec.idx = Len(dec.lines)
    /\ dec' = [dec EXCEPT !.pc = "returned",
                          !.msg = handleUpdateText(dec.responses, dec.err)]
    /\ UNCHANGED <<conn, mutex, th, pending, expired, eof, wire, nc, ren, bot, nrepl, upd, cln>>

NextDecode == DecodeNextLine \/ DecodeReturn

SpecDecode == InitDecode /\ [][NextDecode]_vars

\* ------------------------------------------------------------------------
\* RespToString, one record at a time, over every batch of up to MaxBatch
\* records

RecOut == UnmarshalMerge(LineFields("OUT"), ZeroResponse)
RecRet == UnmarshalMerge(LineFields("RET"), ZeroResponse)
RecExc == UnmarshalMerge(LineFields("EXC"), ZeroResponse)
\* records with the error indicator set and a value that is no EDN map
RecRaw(tag) ==
    [ZeroResponse EXCEPT !.Tag = tag, !.Value = VRaw, !.Namespace = VUser,
                         !.Exception = TRUE]
RecTap == [ZeroResponse EXCEPT !.Tag = "tap", !.Value = V42]

RenderRecords ==
    {RecOut, RecRet, RecExc, RecTap} \cup {RecRaw(tag) : tag \in {"ret", "out", "err", "tap"}}

InitRender ==
    /\ conn = "open"
    /\ mutex = NoThread
    /\ th = [t \in Threads |-> IdleThread]
    /\ pending = <<>>
    /\ expired = FALSE
    /\ eof = FALSE
    /\ wire = <<>>
    /\ nc = NcIdle
    /\ dec = DecIdle
    /\ bot = BotIdle
    /\ nrepl = NreplIdle
    /\ upd = UpdIdle
    /\ cln = ClnIdle
    /\ \E rs \in SeqsUpTo(RenderRecords, MaxBatch) :
          ren = [RenIdle EXCEPT !.pc = "loop", !.responses = rs]

\* the body of the loop (lines 284-317)
RenderRecord ==
    /\ ren.pc = "loop"
    /\ ren.idx < Len(ren.responses)
    /\ ren' = [ren EXCEPT !.idx = @ + 1,
                          !.msgs = Append(@, RenderOne(ren.responses[ren.idx + 1]))]
    /\ UNCHANGED <<conn, mutex, th, pending, expired, eof, wire, nc, dec, bot, nrepl, upd, cln>>

\* strings.Join(msgs, "\n") (line 320)
RenderJoin ==
    /\ ren.pc = "loop"
    /\ ren.idx = Len(ren.responses)
    /\ ren' = [ren EXCEPT !.pc = "returned", !.out = Join(ren.msgs)]
    /\ UNCHANGED <<conn, mutex, th, pending, expired, eof, wire, nc, dec, bot, nrepl, upd, cln>>

NextRender == RenderRecord \/ RenderJoin

SpecRender == InitRender /\ [][NextRender]_vars

\* ------------------------------------------------------------------------
\* main (src/main.go:124-160): the process after NewClient has returned

\* the goroutine of main, which runs handleUpdate for one update at a time,
\* and the goroutine that waits for the signal
MainThread == "t1"
SigThread == "t2"

\* cap(sig) of make(chan os.Signal, 1) (line 129)
SigCap == 1

\* NewClient returned after the launch: ten failed dials, the first dial of
\* the boot window succeeded, both commands of initialize were evaluated
NcLaunched ==
    [NcIdle EXCEPT !.i = replConnectTimeoutSeconds, !.k = Len(InitCommands),
                   !.launches = 1, !.cmd = "running",
                   !.connectFails = replConnectTimeoutSeconds,
                   !.connectOk = FALSE, !.evals = InitCommands,
                   !.initErrs = <<"nil", "nil">>]

\* bot.GetMe and bot.DeleteWebhook (lines 141-159): the updates are
\* monitored, or main panics
BotStart ==
    /\ nc.proc = "running" /\ bot.pc = "start"
    /\ \/ /\ bot' = [bot EXCEPT !.pc = "monitor"]
          /\ nc' = nc
       \/ /\ bot' = bot
          /\ nc' = [nc EXCEPT !.proc = "terminated", !.cause = "bot"]
    /\ UNCHANGED <<conn, mutex, th, pending, expired, eof, wire, dec, ren, nrepl, upd, cln>>

\* handleUpdate calls client.Eval for a text (lines 193, 199, 210)
HandleText ==
    /\ bot.pc = "monitor"
    /\ Eval(MainThread)

\* handleUpdate calls client.LoadFile for a document (line 222)
HandleDocument ==
    /\ bot.pc = "monitor"
    /\ LoadFile(MainThread)

\* signal.Notify (line 130): a signal is sent on the channel without
\* blocking, and dropped when the channel is full
SignalArrives ==
    /\ nc.proc = "running"
    /\ bot.sigbuf < SigCap
    /\ bot' = [bot EXCEPT !.sigbuf = @ + 1]
    /\ UNCHANGED <<conn, mutex, th, pending, expired, eof, wire, nc, dec, ren, nrepl, upd, cln>>

\* variant: the goroutine exits on the signal without Shutdown
SigReceiveExits ==
    /\ bot.sigpc = "wait"
    /\ bot.sigbuf > 0
    /\ At(SigThread, "idle")
    /\ bot' = [bot EXCEPT !.sigbuf = @ - 1, !.sigpc = "exited"]
    /\ nc' = [nc EXCEPT !.proc = "terminated", !.cause = "signal"]
    /\ UNCHANGED <<conn, mutex, th, pending, expired, eof, wire, dec, ren, nrepl, upd, cln>>

\* the receive from sig and the call of client.Shutdown (lines 132-133)
SigReceive ==
    /\ bot.sigpc = "wait"
    /\ bot.sigbuf > 0
    /\ Enter(SigThread, "Shutdown", CommandShutdown)
    /\ bot' = [bot EXCEPT !.sigbuf = @ - 1, !.sigpc = "shutdown"]
    /\ UNCHANGED <<conn, mutex, pending, expired, eof, wire, nc, dec, ren, nrepl, upd, cln>>

\* variant: the goroutine waits for the next signal after Shutdown
SigExitWaitsAgain ==
    /\ bot.sigpc = "shutdown"
    /\ At(SigThread, "idle")
    /\ bot' = [bot EXCEPT !.sigpc = "wait"]
    /\ UNCHANGED <<conn, mutex, th, pending, expired, eof, wire, nc, dec, ren, nrepl, upd, cln>>

\* Shutdown has returned: os.Exit(1) (line 134)
SigExit ==
    /\ bot.sigpc = "shutdown"
    /\ At(SigThread, "idle")
    /\ bot' = [bot EXCEPT !.sigpc = "exited"]
    /\ nc' = [nc EXCEPT !.proc = "terminated", !.cause = "signal"]
    /\ UNCHANGED <<conn, mutex, th, pending, expired, eof, wire, dec, ren, nrepl, upd, cln>>

\* NewClient has returned, attached to a running backend or after a launch
InitBot ==
    /\ conn = "open"
    /\ mutex = NoThread
    /\ th = [t \in Threads |-> IdleThread]
    /\ pending = <<>>
    /\ expired = FALSE
    /\ eof = FALSE
    /\ \/ nc = NcIdle /\ wire = <<>>
       \/ nc = NcLaunched /\ wire = CommandSetPrintLength \o <<NL>>
    /\ dec = DecIdle
    /\ ren = RenIdle
    /\ bot = BotIdle
    /\ nrepl = NreplIdle
    /\ upd = UpdIdle
    /\ cln = ClnIdle

NextBot ==
    \/ BotStart
    \/ HandleText
    \/ HandleDocument
    \/ SignalArrives
    \/ SigReceive
    \/ SigExit
    \/ CmdPanic
    \/ CmdExit
    \/ \E t \in Threads : Exchange(t)

SpecBot == InitBot /\ [][NextBot]_vars

\* ------------------------------------------------------------------------
\* The process while at most MaxUpdates updates arrive, with the scheduling
\* of the goroutines

\* the updates that arrive in a run
MaxUpdates == 1

\* an update with a text arrives and handleUpdate calls client.Eval
\* (lines 147-149, 193, 199, 210)
UpdateText ==
    /\ bot.pc = "monitor"
    /\ bot.updates < MaxUpdates
    /\ \E code \in Codes : Enter(MainThread, "Eval", code)
    /\ bot' = [bot EXCEPT !.updates = @ + 1]
    /\ UNCHANGED <<conn, mutex, pending, expired, eof, wire, nc, dec, ren, nrepl, upd, cln>>

\* an update with a document arrives and handleUpdate calls client.LoadFile
\* (lines 147-149, 222)
UpdateDocument ==
    /\ bot.pc = "monitor"
    /\ bot.updates < MaxUpdates
    /\ \E path \in Paths : Enter(MainThread, "LoadFile", LoadFileRequest(path))
    /\ bot' = [bot EXCEPT !.updates = @ + 1]
    /\ UNCHANGED <<conn, mutex, pending, expired, eof, wire, nc, dec, ren, nrepl, upd, cln>>

NextUpdates ==
    \/ BotStart
    \/ UpdateText
    \/ UpdateDocument
    \/ SignalArrives
    \/ SigReceive
    \/ SigExit
    \/ CmdPanic
    \/ CmdExit
    \/ \E t \in Threads : Exchange(t)

\* when a call can take a step: it is past c.Lock(), or it is at c.Lock()
\* and the mutex is free; every other step of a call returns
ExchangeEnabled ==
    /\ nc.proc = "running"
    /\ \/ \E t \in Threads : th[t].pc \notin {"idle", "lock"}
       \/ \E t \in Threads : th[t].pc = "lock" /\ LockFree(t)

\* a step of a call: the one kind of step that moves a goroutine and leaves
\* the bot and the signal channel alone
ExchangeStep == th' # th /\ bot' = bot

\* a goroutine that can take a step takes one: the signal goroutine
\* receives and exits, and (weak fairness written out, with
\* ExchangeEnabled for the enabling condition) a call goes on.  With the
\* updates of a run bounded, the handler cannot keep the lock from Shutdown
\* for ever.
FairUpdates ==
    /\ WF_vars(SigReceive)
    /\ WF_vars(SigExit)
    /\ []<>(~ExchangeEnabled) \/ []<><<ExchangeStep>>_vars

SpecUpdates == InitBot /\ [][NextUpdates]_vars /\ FairUpdates

\* ------------------------------------------------------------------------
\* One reply handled by the nREPL client (src/unnamed/part_000,
\* src/unnamed/part_003)

\* the values a key of a reply map may carry
KeyValues(k) ==
    CASE k = "ns" -> {BString(<<"user">>)}
      [] k = "value" -> {BString(<<"42">>), BInt(42)}
      [] k = "out" -> {BString(<<"hi", NL>>)}
      [] k = "status" -> {BList(<<>>), BList(<<BString(<<"error">>)>>),
                          BList(<<BString(<<"eval-error">>), BInt(7)>>)}
      [] k = "ex" -> {BString(<<"E1">>)}
      [] k = "root-ex" -> {BString(<<"E1">>), BString(<<"E2">>)}
      [] k = "err" -> {BString(<<"warn">>)}
      [] k = "id" -> {BInt(1)}

MapKeys == {"ns", "value", "out", "status", "ex", "root-ex", "err", "id"}

\* the maps with keys among keys
RECURSIVE MapsOver(_)
MapsOver(keys) ==
    IF keys = {} THEN {NoMap}
    ELSE LET k == CHOOSE x \in keys : TRUE
             rest == MapsOver(keys \ {k})
         IN  rest \cup {(k :> v) @@ m : v \in KeyValues(k), m \in rest}

\* what the backend may answer: nothing, bytes that are no bencode, or
\* the encoding of a string, an integer, a list or a map
NreplReplies ==
    {BValue("empty"), BValue("garbage")}
        \cup {BString(s) : s \in {<<>>, <<"42">>, <<"hi">>}}
        \cup {BInt(i) : i \in {-7, 0, 42}}
        \cup {BList(l) : l \in SeqsUpTo({BString(<<"a">>), BInt(7)}, 2)}
        \cup {BMap(m) : m \in MapsOver(MapKeys)}

\* a call of sendAndRecv begins; sends is what the backend will answer
InitNrepl ==
    /\ conn = "open"
    /\ mutex = NoThread
    /\ th = [t \in Threads |-> IdleThread]
    /\ pending = <<>>
    /\ expired = FALSE
    /\ eof = FALSE
    /\ wire = <<>>
    /\ nc = NcIdle
    /\ dec = DecIdle
    /\ ren = RenIdle
    /\ bot = BotIdle
    /\ upd = UpdIdle
    /\ cln = ClnIdle
    /\ \E sends \in NreplReplies :
          nrepl = [NreplIdle EXCEPT !.pc = "deadline", !.sends = sends]

\* c.conn.SetReadDeadline (src/unnamed/part_000:221-226)
NreplSetReadDeadline ==
    /\ nrepl.pc = "deadline"
    /\ \/ nrepl' = [nrepl EXCEPT !.pc = "write"]
       \/ nrepl' = [nrepl EXCEPT !.pc = "returned", !.err = "errDeadline"]
    /\ UNCHANGED <<conn, mutex, th, pending, expired, eof, wire, nc, dec, ren, bot, upd, cln>>

\* bencode.Marshal(c.conn, request) (lines 228-229, 245-247)
NreplWrite ==
    /\ nrepl.pc = "write"
    /\ \/ nrepl' = [nrepl EXCEPT !.pc = "read", !.wrote = TRUE]
       \/ nrepl' = [nrepl EXCEPT !.pc = "recv", !.err = "errWrite"]
    /\ UNCHANGED <<conn, mutex, th, pending, expired, eof, wire, nc, dec, ren, bot, upd, cln>>

\* a Read that returns the bytes of the answer (lines 233-237): err is the
\* err of sendAndRecv, which the Read sets to nil
NreplReadData ==
    /\ nrepl.pc = "read" /\ ~nrepl.expired /\ ~nrepl.eof
    /\ nrepl.sends.kind # "empty" /\ nrepl.reply.kind = "empty"
    /\ nrepl' = [nrepl EXCEPT !.reply = nrepl.sends, !.err = "nil",
                              !.n = @ + 1, !.onlyTimeouts = FALSE,
                              !.pc = IF AfterAttempt(nrepl.n) = "read"
                                     THEN "read" ELSE "recv"]
    /\ UNCHANGED <<conn, mutex, th, pending, expired, eof, wire, nc, dec, ren, bot, upd, cln>>

\* variant: the error of a Read is local to the loop
NreplReadTimeoutLocalErr ==
    /\ nrepl.pc = "read" /\ (nrepl.expired \/ ~nrepl.eof)
    /\ nrepl' = [nrepl EXCEPT !.expired = TRUE,
                              !.n = @ + 1,
                              !.pc = IF AfterAttempt(nrepl.n) = "read"
                                     THEN "read" ELSE "recv"]
    /\ UNCHANGED <<conn, mutex, th, pending, expired, eof, wire, nc, dec, ren, bot, upd, cln>>

\* a Read that times out (lines 234, 238-243): the loop goes on, and err
\* keeps the timeout
NreplReadTimeout ==
    /\ nrepl.pc = "read" /\ (nrepl.expired \/ ~nrepl.eof)
    /\ nrepl' = [nrepl EXCEPT !.expired = TRUE, !.err = "errTimeout",
                              !.n = @ + 1,
                              !.pc = IF AfterAttempt(nrepl.n) = "read"
                                     THEN "read" ELSE "recv"]
    /\ UNCHANGED <<conn, mutex, th, pending, expired, eof, wire, nc, dec, ren, bot, upd, cln>>

\* a Read at the end of the stream (lines 234, 239)
NreplReadEOF ==
    /\ nrepl.pc = "read" /\ ~nrepl.expired
    /\ nrepl' = [nrepl EXCEPT !.eof = TRUE, !.err = "EOF",
                              !.n = @ + 1, !.onlyTimeouts = FALSE,
                              !.pc = IF AfterAttempt(nrepl.n) = "read"
                                     THEN "read" ELSE "recv"]
    /\ UNCHANGED <<conn, mutex, th, pending, expired, eof, wire, nc, dec, ren, bot, upd, cln>>

\* a Read error that is neither: break (lines 239-242)
NreplReadError ==
    /\ nrepl.pc = "read" /\ ~nrepl.expired /\ ~nrepl.eof
    /\ nrepl' = [nrepl EXCEPT !.err = "errRead", !.n = @ + 1,
                              !.onlyTimeouts = FALSE, !.pc = "recv"]
    /\ UNCHANGED <<conn, mutex, th, pending, expired, eof, wire, nc, dec, ren, bot, upd, cln>>

\* the decoding of the buffer and the return of sendAndRecv into Eval, and
\* of Eval to the handler (src/unnamed/part_000:253-283, 167-183)
NreplRecv ==
    /\ nrepl.pc = "recv"
    /\ \E before \in SUBSET (DOMAIN nrepl.reply.map) :
          LET res == nreplSendAndRecv(nrepl.reply, nrepl.err, before)
          IN  nrepl' = [nrepl EXCEPT !.pc = "returned",
                                     !.received = res.received,
                                     !.err = res.err]
    /\ UNCHANGED <<conn, mutex, th, pending, expired, eof, wire, nc, dec, ren, bot, upd, cln>>

\* the handler renders the response of a call that returned no error
\* (src/unnamed/part_003:181-183)
NreplRender ==
    /\ nrepl.pc = "returned" /\ nrepl.err = "nil"
    /\ nrepl' = [nrepl EXCEPT !.pc = "done",
                              !.msg = nreplRespToString(nrepl.received)]
    /\ UNCHANGED <<conn, mutex, th, pending, expired, eof, wire, nc, dec, ren, bot, upd, cln>>

\* and reports the error of a call that returned one
\* (src/unnamed/part_003:184-186)
NreplError ==
    /\ nrepl.pc = "returned" /\ nrepl.err # "nil"
    /\ nrepl' = [nrepl EXCEPT !.pc = "done", !.msg = <<"Error: ", nrepl.err>>]
    /\ UNCHANGED <<conn, mutex, th, pending, expired, eof, wire, nc, dec, ren, bot, upd, cln>>

NextNrepl ==
    \/ NreplSetReadDeadline
    \/ NreplWrite
    \/ NreplReadData
    \/ NreplReadTimeout
    \/ NreplReadEOF
    \/ NreplReadError
    \/ NreplRecv
    \/ NreplRender
    \/ NreplError

SpecNrepl == InitNrepl /\ [][NextNrepl]_vars

\* ------------------------------------------------------------------------
\* handleUpdate (src/main.go:163-255)

commandStart == "/start"
commandPublics == "/publics"
commandReset == "/reset"

messageWelcome == <<"welcome!">>
messageFailedToListPublics == <<"failed to list public definitions.">>
messageFailedToReset == <<"failed to reset REPL.">>
messageErrorNothingReceived == <<"nothing received from REPL.">>

CommandPublics ==
    <<"(clojure.string/join \", \" (map first (ns-publics (ns-name *ns*))))">>
CommandReset == <<"(map #(ns-unmap *ns* %) (keys (ns-interns *ns*)))">>

\* _allowedIds of the configuration
allowedIds == <<"alice">>

\* the usernames of the senders: "nil" is a sender without a username
Usernames == {"nil", "alice", "mallory"}

\* variant: every sender with a username is allowed
isAllowedIDAnyName(id) == id # "nil"

\* isAllowedID (lines 110-122)
isAllowedID(id) ==
    /\ id # "nil"
    /\ \E i \in 1..Len(allowedIds) : allowedIds[i] = id

\* the reply to a sender who is not allowed (lines 175-183)
NotAllowedReply(username) ==
    IF username = "nil"
    THEN <<"'", "FirstName", "' is not allowed to use this bot.">>
    ELSE <<"@", username, " is not allowed to use this bot.">>

\* the code handleUpdate evaluates for a text (lines 193, 199, 210)
CodeOf(text) ==
    CASE text = commandPublics -> CommandPublics
      [] text = commandReset -> CommandReset
      [] OTHER -> <<text>>

\* variant: a failed evaluation of free text is answered with the records
ReplyOfEvalRendersOnError(text, received, err) ==
    CASE text = commandPublics ->
            IF err = "nil" THEN RespToString(received)
                           ELSE messageFailedToListPublics
      [] text = commandReset ->
            IF err = "nil"
            THEN IF Len(received) > 0
                 THEN received[1].Namespace \o <<"=", ">", SP>>
                                            \o received[1].Value
                 ELSE messageErrorNothingReceived
            ELSE messageFailedToReset
      [] OTHER -> RespToString(received)

\* the message of the three cases of the switch that call Eval
\* (lines 192-215)
ReplyOfEval(text, received, err) ==
    CASE text = commandPublics ->
            IF err = "nil" THEN RespToString(received)
                           ELSE messageFailedToListPublics
      [] text = commandReset ->
            IF err = "nil"
            THEN IF Len(received) > 0
                 THEN received[1].Namespace \o <<"=", ">", SP>>
                                            \o received[1].Value
                 ELSE messageErrorNothingReceived
            ELSE messageFailedToReset
      [] OTHER ->
            IF err = "nil" THEN RespToString(received)
                           ELSE <<"error: ", err>>

\* the message after client.LoadFile returned (lines 222-231)
ReplyOfLoadFile(received, err) ==
    IF err = "nil" THEN RespToString(received)
                   ELSE <<"failed to load file: ", err>>

\* variant: the downloaded file is removed whatever LoadFile returned
RemovesAfterLoadAlways(err) == TRUE

\* os.Remove(filepath) is called inside the err == nil branch of LoadFile
\* (lines 222-228)
RemovesAfterLoad(err) == err = "nil"

\* variant: the message is sent even when it is empty
ShouldSendAlways(msg) == TRUE

\* if msg != "" (line 242), msg being trimmed
ShouldSend(msg) == msg # <<>>

\* what Eval and LoadFile may return: the records and the error of
\* sendAndRecv for the replies of up to MaxLines lines, and the failures
\* before anything was read
ClientResults ==
    {[responses |-> sendAndRecvDecode(cleanse(WireOf(ls)), "nil").responses,
      err |-> sendAndRecvDecode(cleanse(WireOf(ls)), "nil").err] :
        ls \in SeqsUpTo(LineKinds, MaxLines)}
    \cup {[responses |-> <<>>, err |-> e] : e \in {"errWrite", "errDeadline"}}

Texts == {commandStart, commandPublics, commandReset, "(+ 40 2)"}

\* an update arrives at the handler (lines 147-149)
InitHandleUpdate ==
    /\ conn = "open"
    /\ mutex = NoThread
    /\ th = [t \in Threads |-> IdleThread]
    /\ pending = <<>>
    /\ expired = FALSE
    /\ eof = FALSE
    /\ wire = <<>>
    /\ nc = NcIdle
    /\ dec = DecIdle
    /\ ren = RenIdle
    /\ bot = BotIdle
    /\ nrepl = NreplIdle
    /\ cln = ClnIdle
    /\ \/ upd = [UpdIdle EXCEPT !.pc = "update"]
       \/ \E u \in Usernames :
             \/ \E text \in Texts :
                   upd = [UpdIdle EXCEPT !.pc = "update", !.hasMessage = TRUE,
                                         !.username = u, !.content = "text",
                                         !.text = text]
             \/ \E path \in Paths :
                   upd = [UpdIdle EXCEPT !.pc = "update", !.hasMessage = TRUE,
                                         !.username = u,
                                         !.content = "document", !.path = path]
             \/ upd = [UpdIdle EXCEPT !.pc = "update", !.hasMessage = TRUE,
                                      !.username = u, !.content = "other"]

\* the update has no message: it is logged (lines 164, 252-254)
HandleNoMessage ==
    /\ upd.pc = "update" /\ ~upd.hasMessage
    /\ upd' = [upd EXCEPT !.pc = "done"]
    /\ UNCHANGED <<conn, mutex, th, pending, expired, eof, wire, nc, dec, ren, bot, nrepl, cln>>

\* the sender is not allowed (lines 173-183)
HandleNotAllowed ==
    /\ upd.pc = "update" /\ upd.hasMessage
    /\ ~isAllowedID(upd.username)
    /\ upd' = [upd EXCEPT !.pc = "send", !.msg = NotAllowedReply(upd.username)]
    /\ UNCHANGED <<conn, mutex, th, pending, expired, eof, wire, nc, dec, ren, bot, nrepl, cln>>

\* the sender is allowed: the chat action, then the branch of the content
\* (lines 184-191, 216-218, 235-237)
HandleAllowed ==
    /\ upd.pc = "update" /\ upd.hasMessage
    /\ isAllowedID(upd.username)
    /\ upd' =
          CASE upd.content = "text" /\ upd.text = commandStart ->
                  [upd EXCEPT !.typing = TRUE, !.pc = "send",
                              !.msg = messageWelcome]
            [] upd.content = "text" /\ upd.text # commandStart ->
                  [upd EXCEPT !.typing = TRUE, !.pc = "eval",
                              !.request = CodeOf(upd.text)]
            [] upd.content = "document" ->
                  [upd EXCEPT !.typing = TRUE, !.pc = "download"]
            [] OTHER ->
                  [upd EXCEPT !.typing = TRUE, !.pc = "send",
                              !.msg = <<"error: couldn't process your message.">>]
    /\ UNCHANGED <<conn, mutex, th, pending, expired, eof, wire, nc, dec, ren, bot, nrepl, cln>>

\* client.Eval returns (lines 193-197, 199-208, 210-214)
HandleEval ==
    /\ upd.pc = "eval"
    /\ \E res \in ClientResults :
          upd' = [upd EXCEPT !.pc = "send",
                             !.calls = Append(@, <<"Eval", upd.request>>),
                             !.received = res.responses, !.err = res.err,
                             !.msg = ReplyOfEval(upd.text, res.responses,
                                                 res.err)]
    /\ UNCHANGED <<conn, mutex, th, pending, expired, eof, wire, nc, dec, ren, bot, nrepl, cln>>

\* downloadTemporarily (lines 221, 232-234, 258-279): on failure the file
\* may have been created already
downloadTemporarily ==
    /\ upd.pc = "download"
    /\ \/ upd' = [upd EXCEPT !.pc = "loadfile", !.downloads = @ + 1,
                             !.file = "present"]
       \/ \E f \in {"none", "present"} :
             upd' = [upd EXCEPT !.pc = "send", !.downloads = @ + 1,
                                !.file = f,
                                !.msg = <<"failed to download the document: ",
                                          "errDownload">>]
    /\ UNCHANGED <<conn, mutex, th, pending, expired, eof, wire, nc, dec, ren, bot, nrepl, cln>>

\* client.LoadFile returns (lines 222-223, 229-231)
HandleLoadFile ==
    /\ upd.pc = "loadfile"
    /\ \E res \in ClientResults :
          upd' = [upd EXCEPT !.pc = IF RemovesAfterLoad(res.err) THEN "remove"
                                                                 ELSE "send",
                             !.calls = Append(@, <<"LoadFile", upd.path>>),
                             !.received = res.responses, !.err = res.err,
                             !.msg = ReplyOfLoadFile(res.responses, res.err)]
    /\ UNCHANGED <<conn, mutex, th, pending, expired, eof, wire, nc, dec, ren, bot, nrepl, cln>>

\* os.Remove(filepath) (lines 225-228): a failure is logged
HandleRemove ==
    /\ upd.pc = "remove"
    /\ \E f \in {"deleted", "present"} :
          upd' = [upd EXCEPT !.pc = "send", !.file = f,
                             !.removedAfter = upd.calls[Len(upd.calls)][1]]
    /\ UNCHANGED <<conn, mutex, th, pending, expired, eof, wire, nc, dec, ren, bot, nrepl, cln>>

\* msg = strings.TrimSpace(msg) and b.SendMessage (lines 240-251)
HandleSend ==
    /\ upd.pc = "send"
    /\ LET msg == TrimSpace(upd.msg)
       IN  upd' = [upd EXCEPT !.pc = "done", !.msg = msg,
                              !.sent = IF ShouldSend(msg) THEN Append(@, msg)
                                                          ELSE @]
    /\ UNCHANGED <<conn, mutex, th, pending, expired, eof, wire, nc, dec, ren, bot, nrepl, cln>>

NextHandleUpdate ==
    \/ HandleNoMessage
    \/ HandleNotAllowed
    \/ HandleAllowed
    \/ HandleEval
    \/ downloadTemporarily
    \/ HandleLoadFile
    \/ HandleRemove
    \/ HandleSend

SpecHandleUpdate == InitHandleUpdate /\ [][NextHandleUpdate]_vars

\* ------------------------------------------------------------------------
\* cleanse, step by step (src/repl/client.go:334-346)

MaxCleanseLen == 4

\* the pieces of the texts cleanse is given: the pieces of the three invalid
\* strings, of a hex number, and another character
CleanseUnits ==
    {"#:", "#", "clojure.error", "clojure.spec.alpha", "object", "0x", "1", "x"}

InitCleanse ==
    /\ conn = "open"
    /\ mutex = NoThread
    /\ th = [t \in Threads |-> IdleThread]
    /\ pending = <<>>
    /\ expired = FALSE
    /\ eof = FALSE
    /\ wire = <<>>
    /\ nc = NcIdle
    /\ dec = DecIdle
    /\ ren = RenIdle
    /\ bot = BotIdle
    /\ nrepl = NreplIdle
    /\ upd = UpdIdle
    /\ \E original \in SeqsUpTo(CleanseUnits, MaxCleanseLen) :
          cln = [ClnIdle EXCEPT !.pc = "remove", !.original = original,
                                !.result = original, !.i = 1]

\* one iteration of the loop over invalidStrings (lines 338-340)
CleanseRemove ==
    /\ cln.pc = "remove"
    /\ cln' = [cln EXCEPT !.result = ReplaceAll(@, invalidStrings[cln.i], <<>>),
                          !.i = @ + 1,
                          !.pc = IF cln.i < Len(invalidStrings) THEN "remove"
                                                                ELSE "hex"]
    /\ UNCHANGED <<conn, mutex, th, pending, expired, eof, wire, nc, dec, ren, bot, nrepl, upd>>

\* the hex numbers are quoted, and cleanse returns (lines 343-345)
CleanseHex ==
    /\ cln.pc = "hex"
    /\ cln' = [cln EXCEPT !.result = ReplaceHex(@), !.pc = "done"]
    /\ UNCHANGED <<conn, mutex, th, pending, expired, eof, wire, nc, dec, ren, bot, nrepl, upd>>

NextCleanse == CleanseRemove \/ CleanseHex

SpecCleanse == InitCleanse /\ [][NextCleanse]_vars

\* ------------------------------------------------------------------------
\* Properties of the exchange (Spec)

\* the steps that touch the connection, and the positions of a call between
\* its deadline-setting step and its last read attempt
Touching == {"deadline", "write", "read", "close"}
Between == {"write", "read"}

\* C1: under any interleaving of Eval, LoadFile and Shutdown calls, no call
\* is about to set the deadline of, write to, read from or close the
\* connection while another call is between its deadline-setting step and
\* its last read attempt: at most one exchange is in progress.
C1_OneExchangeAtATime ==
    \A a \in Threads : \A b \in Threads \ {a} :
        ~(th[a].pc \in Touching /\ th[b].pc \in Between)

\* a call is in its read loop while the other one waits for the lock
C1_Witness ==
    \E a \in Threads : \E b \in Threads \ {a} :
        /\ th[a].pc = "read" /\ th[a].n > 0
        /\ th[b].pc = "lock"

\* C2: when the request was written and every one of the numRetries read
\* attempts timed out, Eval returns a non-nil error and no record.
C2_AllTimeoutsIsAnError ==
    \A t \in Threads :
        ( /\ th[t].pc = "unlock" /\ th[t].op = "Eval"
          /\ th[t].wrote /\ th[t].onlyTimeouts /\ th[t].n = numRetries )
        => (th[t].err # "nil" /\ th[t].responses = <<>>)

\* C10: Shutdown closes the connection only after it has attempted the
\* exchange of the terminate-backend expression, and it has closed the
\* connection on every path by the time it unlocks, whether the exchange
\* succeeded or failed at the deadline-setting, write or read step.
C10_ShutdownClosesAfterExchange ==
    \A t \in Threads :
        th[t].op = "Shutdown" =>
            /\ th[t].closed =>
                  /\ th[t].pc = "unlock"
                  /\ conn = "closed"
                  /\ th[t].err \in {"errDeadline", "errWrite"} \/ th[t].wrote
            /\ th[t].pc = "unlock" => th[t].closed
            /\ th[t].wrote => wire = CommandShutdown \o <<NL>>

\* a Shutdown whose exchange failed at the read step has closed the connection
C10_Witness ==
    \E t \in Threads :
        /\ th[t].op = "Shutdown" /\ th[t].pc = "unlock"
        /\ th[t].wrote /\ th[t].readErr = "errRead"
        /\ conn = "closed"

\* ------------------------------------------------------------------------
\* Properties of NewClient (SpecNewClient)

\* C3: NewClient launches the backend if and only if every one of the
\* replConnectTimeoutSeconds dials of the connect window failed: no launch
\* when one of them succeeded, never more than one launch, and none before
\* the last failed dial of the connect window.
C3_LaunchIffConnectWindowFails ==
    /\ nc.launches \in {0, 1}
    /\ nc.connectFails <= replConnectTimeoutSeconds
    /\ (nc.launches = 1) <=> (nc.connectFails = replConnectTimeoutSeconds)
    /\ nc.connectOk => nc.launches = 0

\* the connect window failed, the backend was launched once, a dial of the
\* boot window succeeded and NewClient returned
C3_Witness ==
    /\ nc.pc = "returned"
    /\ nc.connectFails = replConnectTimeoutSeconds
    /\ nc.launches = 1

\* C4: when all the dials of the connect window and of the boot window
\* failed, the program is terminated and NewClient has not returned; and
\* whenever NewClient has returned, the client holds an open connection
\* that exactly one successful dial produced.
C4_ReturnsConnectedOrTerminates ==
    /\ ( /\ nc.connectFails = replConnectTimeoutSeconds
         /\ nc.bootFails = replBootupTimeoutSeconds )
       => (nc.proc = "terminated" /\ nc.pc # "returned")
    /\ nc.pc = "returned" => (conn = "open" /\ nc.dials = 1)

\* both windows ran out
C4_Witness ==
    /\ nc.connectFails = replConnectTimeoutSeconds
    /\ nc.bootFails = replBootupTimeoutSeconds
    /\ nc.proc = "terminated"

\* ------------------------------------------------------------------------
\* Properties of the decoding (SpecDecode)

\* the record a line stands for when it is parsed on its own
OwnRecord(u) == UnmarshalMerge(LineFields(u), ZeroResponse)

IsGoodLine(u) == u \in GoodLines
IsBadLine(u) == u \in BadLines

\* the records of the lines of a reply that parse, in arrival order
OwnRecords(ls) ==
    LET good == SelectSeq(ls, IsGoodLine)
    IN  [i \in 1..Len(good) |-> OwnRecord(good[i])]

\* C5: when a reply is three records of which exactly one fails to parse,
\* the batch returned is exactly the other two records, in arrival order,
\* wherever the malformed line stands.
C5_MalformedLineSkipped ==
    ( /\ dec.pc = "returned"
      /\ Len(dec.src) = 3
      /\ \A i \in 1..3 : dec.src[i] \in LineUnits
      /\ Len(SelectSeq(dec.src, IsBadLine)) = 1 )
    => dec.responses = OwnRecords(dec.src)

\* C6: a line that fails to parse does not fail the exchange: when a sibling
\* line parses, the records come back with a nil error, wherever the
\* malformed line stands, and the chat reply is the rendering of the records.
C6_ParseFailureIsolated ==
    ( /\ dec.pc = "returned"
      /\ Len(SelectSeq(dec.src, IsBadLine)) >= 1
      /\ Len(SelectSeq(dec.src, IsGoodLine)) >= 1 )
    => /\ dec.err = "nil"
       /\ Len(dec.responses) = Len(SelectSeq(dec.src, IsGoodLine))
       /\ dec.msg = TrimSpace(RespToString(dec.responses))

\* C7: every record returned depends on its own line only: it is the record
\* that line gives when parsed on its own, whatever the lines before it set.
C7_RecordsParsedIndependently ==
    dec.pc = "returned" => dec.responses = OwnRecords(dec.src)

\* ------------------------------------------------------------------------
\* Properties of the rendering (SpecRender)

TextHello == <<"h", "e", "l", "l", "o">>
TextUser42 == <<"u", "s", "e", "r", "=", ">", " ", "4", "2">>
TextUserOops == <<"u", "s", "e", "r", "=", ">", " ", "o", "o", "p", "s">>
TextOops == <<"o", "o", "p", "s">>

\* C8: RespToString emits one fragment per record, in arrival order, joined
\* by single newlines, and neither reorders nor merges equal records: the
\* batch [out "hello\n", ret user 42] renders as hello, newline, user=> 42.
C8_OneFragmentPerRecordInOrder ==
    /\ Len(ren.msgs) = ren.idx
    /\ ren.pc = "returned" =>
          /\ Len(ren.msgs) = Len(ren.responses)
          /\ ren.responses = <<RecOut, RecRet>> =>
                ren.out = TextHello \o <<NL>> \o TextUser42
          /\ ren.responses = <<RecRet, RecOut>> =>
                ren.out = TextUser42 \o <<NL>> \o TextHello
          /\ ren.responses = <<RecRet, RecRet>> =>
                ren.out = TextUser42 \o <<NL>> \o TextUser42
          /\ ren.responses = <<RecOut>> => ren.out = TextHello

\* the batch of the example has been rendered
C8_Witness ==
    /\ ren.pc = "returned"
    /\ ren.responses = <<RecOut, RecRet>>

\* C9: a record whose error indicator is set and whose value is no
\* cause/phase structure is rendered by its tag (namespace=> value for ret,
\* the trimmed value for out and err, a diagnostic text for another tag),
\* and the records after it are rendered too.
C9_UnparsableCauseFallsBack ==
    /\ \A i \in 1..Len(ren.msgs) :
          LET r == ren.responses[i]
          IN  (r.Exception /\ r.Value = VRaw) =>
                 ren.msgs[i] = CASE r.Tag = "ret" -> TextUserOops
                                 [] r.Tag \in {"out", "err"} -> TextOops
                                 [] OTHER -> ErrStrException
    /\ ren.pc = "returned" => Len(ren.msgs) = Len(ren.responses)

\* such a record came first in a batch of two and both were rendered
C9_Witness ==
    /\ ren.pc = "returned"
    /\ Len(ren.responses) = 2
    /\ ren.responses[1] = RecRaw("ret")
    /\ ren.out = TextUserOops \o <<NL>> \o TextUser42

\* ------------------------------------------------------------------------
\* Properties of the failure paths of one exchange (Spec)

\* the call of t is past the write step and its write failed
WriteFailed(t) ==
    /\ th[t].pc \in {"bytes", "decode", "close", "unlock"}
    /\ ~th[t].wrote
    /\ th[t].err # "errDeadline"

\* C12: when writing the request fails, the exchange makes no read attempt
\* and returns the error of the write with no record; until the call
\* returns the connection is the one dialled by NewClient, and an Eval or
\* LoadFile leaves it open.
C12_WriteFailureSkipsRead ==
    \A t \in Threads :
        WriteFailed(t) =>
            /\ th[t].n = 0
            /\ th[t].buffer = <<>>
            /\ th[t].readErr = "nil"
            /\ th[t].err = "errWrite"
            /\ th[t].responses = <<>>
            /\ nc.dials = 1
            /\ th[t].op \in {"Eval", "LoadFile"} => conn = "open"

\* an Eval whose write failed is about to return
C12_Witness ==
    \E t \in Threads :
        /\ WriteFailed(t)
        /\ th[t].pc = "unlock" /\ th[t].op = "Eval"

\* C13: an Eval or LoadFile whose read loop was ended by a read error that
\* is neither a timeout nor io.EOF returns a non-nil error, also when the
\* buffer was still empty.
C13_HardReadErrorSurfaced ==
    \A t \in Threads :
        ( /\ th[t].pc = "unlock" /\ th[t].op \in {"Eval", "LoadFile"}
          /\ th[t].readErr = "errRead" )
        => th[t].err # "nil"

\* ------------------------------------------------------------------------
\* Properties of the running process (SpecBot)

\* what holds of the connection in every state of a run
ClosedOnlyBySignal ==
    /\ nc.dials = 1
    /\ th[MainThread].op # "Shutdown"
    /\ ~th[MainThread].closed
    /\ \A t \in Threads : th[t].pc = "close" => conn = "open"
    /\ bot.sigpc = "wait" => (conn = "open" /\ th[SigThread] = IdleThread)
    /\ bot.sigpc = "exited" => conn = "closed"
    /\ nc.cause = "signal" <=> bot.sigpc = "exited"

\* what holds of every step of a run
ClosedOnlyOnce ==
    /\ conn' # conn =>
          /\ conn = "open" /\ conn' = "closed"
          /\ th[SigThread].op = "Shutdown" /\ th[SigThread].pc = "close"
    /\ (th[SigThread].pc = "idle" /\ th'[SigThread].pc # "idle") =>
          (bot.sigpc = "wait" /\ bot.sigbuf > 0)
    /\ bot.sigpc # "wait" => bot'.sigpc # "wait"

StartupOrSignal == {"bot", "signal"}

StoppedOutsideExchange ==
    nc'.proc # nc.proc => (th' = th /\ conn' = conn /\ mutex' = mutex)

TextBoom == <<"b", "o", "o", "m">>

\* the reply has a line that is an exception record
HasExceptionLine == \E i \in 1..Len(dec.src) : dec.src[i] = "EXC"

\* C15: a record of the reply whose error indicator is set is returned by
\* Eval with a nil error and is in the batch, and a record whose value is a
\* cause structure renders as the trimmed cause text, not as namespace=>
\* value: a reply that is this one record is answered with the cause.
C15_ExceptionRecordIsSuccess ==
    (dec.pc = "returned" /\ HasExceptionLine) =>
        /\ dec.err = "nil"
        /\ \E k \in 1..Len(dec.responses) :
              /\ dec.responses[k] = OwnRecord("EXC")
              /\ RenderOne(dec.responses[k]) = TextBoom
        /\ dec.src = <<"EXC">> => dec.msg = TextBoom

\* ------------------------------------------------------------------------
\* The buffer of the read loop (Spec)

\* the chunks of the successful reads of a call, one after the other
RECURSIVE Concat(_)
Concat(chunks) ==
    IF chunks = <<>> THEN <<>> ELSE Head(chunks) \o Concat(Tail(chunks))

RequireThenPrintLength == <<CommandRequireRepl, CommandSetPrintLength>>

\* C17: the commands of initialize are evaluated only on a connection
\* dialled after the launch, never when NewClient attached to a running
\* backend; each at most once and in the order require, set-print-length;
\* and when NewClient returns after a launch both have been evaluated once
\* and their exchanges are over.
C17_InitializeOnceAfterLaunch ==
    /\ \E n \in 0..2 : nc.evals = SubSeq(RequireThenPrintLength, 1, n)
    /\ nc.evals # <<>> =>
          (nc.launches = 1 /\ ~nc.connectOk /\ nc.pc \in {"init", "returned"})
    /\ th[Constructor].pc # "idle" =>
          /\ nc.pc = "init"
          /\ th[Constructor].op = "Eval"
          /\ th[Constructor].request = nc.evals[Len(nc.evals)]
    /\ th[Constructor].wrote => wire = th[Constructor].request \o <<NL>>
    /\ nc.pc = "returned" =>
          /\ th[Constructor] = IdleThread /\ mutex = NoThread
          /\ nc.evals = IF nc.launches = 1 THEN RequireThenPrintLength ELSE <<>>
          /\ Len(nc.initErrs) = Len(nc.evals)

\* NewClient has returned after a launch and the last request written to
\* the connection is the second command
C17_Witness ==
    /\ nc.pc = "returned" /\ nc.proc = "running"
    /\ nc.launches = 1
    /\ nc.evals = RequireThenPrintLength
    /\ wire = CommandSetPrintLength \o <<NL>>

\* C18: when the exchange of a command of initialize returns an error, the
\* process is not stopped for it, the next command is still evaluated, and
\* NewClient returns the client with the connection that the boot window
\* dialled, open, for the calls that follow.
C18_InitFailureIsNotFatal ==
    /\ nc.proc = "terminated" => nc.cause \in {"boot", "cmd"}
    /\ Len(nc.initErrs) <= Len(nc.evals)
    /\ Len(nc.evals) <= Len(nc.initErrs) + 1
    /\ (nc.pc = "init" /\ nc.proc = "running" /\ th[Constructor].pc = "idle") =>
          (conn = "open" /\ nc.k = Len(nc.initErrs))
    /\ (nc.pc = "returned" /\ nc.launches = 1) =>
          /\ Len(nc.initErrs) = Len(RequireThenPrintLength)
          /\ conn = "open" /\ nc.dials = 1

\* the first command failed, the second was evaluated without an error,
\* and NewClient has returned
C18_Witness ==
    /\ nc.pc = "returned" /\ nc.proc = "running"
    /\ nc.initErrs = <<"errWrite", "nil">>
    /\ wire = CommandSetPrintLength \o <<NL>>
    /\ conn = "open"

\* ------------------------------------------------------------------------
\* Shutdown during a call of the handler (SpecBot)

\* the handler holds the lock in an Eval or LoadFile
HandlerInFlight ==
    /\ mutex = MainThread
    /\ th[MainThread].op \in {"Eval", "LoadFile"}

\* C19: while an Eval or LoadFile of the handler holds the lock, the
\* Shutdown that the signal started waits for the lock: it has written
\* nothing, the last bytes written are those of the call in flight, and the
\* connection is open until that call has ended its read loop and unlocked.
C19_ShutdownWaitsForExchange ==
    (HandlerInFlight /\ th[SigThread].op = "Shutdown") =>
        /\ th[SigThread].pc = "lock"
        /\ ~th[SigThread].wrote /\ ~th[SigThread].closed
        /\ conn = "open"
        /\ th[MainThread].wrote => wire = th[MainThread].request \o <<NL>>

\* the signal was received while an Eval is in its read loop
C19_Witness ==
    /\ HandlerInFlight
    /\ th[MainThread].op = "Eval" /\ th[MainThread].pc = "read"
    /\ th[MainThread].n > 0
    /\ bot.sigpc = "shutdown" /\ th[SigThread].pc = "lock"

\* ------------------------------------------------------------------------
\* LoadFile and Eval (Spec)

\* what a call whose request was written returns: the decoding of the
\* bytes of its read loop
ExchangeResult(t) ==
    LET b == BytesResult(th[t].buffer, "nil", th[t].readErr)
    IN  sendAndRecvDecode(b.bts, b.err)

\* C20: a LoadFile of a path is the exchange of an Eval of the expression
\* (load-file "path"): its request is that expression, a code Eval accepts;
\* it goes through the steps of Eval under the lock and never closes; it
\* writes the request and a newline; and both return what the decoding of
\* the bytes read gives, or the error of the deadline or the write.
C20_LoadFileIsEvalOfLoadFileForm ==
    \A t \in Threads :
        /\ th[t].op = "LoadFile" =>
              /\ \E p \in Paths : th[t].request = <<"(load-file \"", p, "\")">>
              /\ th[t].request \in Codes
              /\ th[t].pc # "close" /\ ~th[t].closed
        /\ th[t].op \in {"Eval", "LoadFile"} =>
              /\ th[t].pc \notin {"idle", "lock"} => mutex = t
              /\ th[t].wrote => wire = th[t].request \o <<NL>>
              /\ th[t].pc = "unlock" =>
                    IF th[t].wrote
                    THEN /\ th[t].responses = ExchangeResult(t).responses
                         /\ th[t].err = ExchangeResult(t).err
                    ELSE /\ th[t].responses = <<>>
                         /\ th[t].err \in {"errDeadline", "errWrite"}

\* a LoadFile returns two records read from the backend
C20_Witness ==
    \E t \in Threads :
        /\ th[t].op = "LoadFile" /\ th[t].pc = "unlock"
        /\ th[t].wrote /\ th[t].err = "nil"
        /\ Len(th[t].responses) = 2

\* ------------------------------------------------------------------------
\* The bounds of the two retry loops (SpecNewClient)

\* how far a call is from its return: the steps left, at most
ExchangeRank(t) ==
    CASE th[t].pc = "idle" -> 0
      [] th[t].pc = "unlock" -> 1
      [] th[t].pc = "close" -> 2
      [] th[t].pc = "decode" -> 3
      [] th[t].pc = "bytes" -> 4
      [] th[t].pc = "read" -> 5 + (numRetries - th[t].n)
      [] th[t].pc = "write" -> 6 + numRetries
      [] th[t].pc = "deadline" -> 7 + numRetries
      [] th[t].pc = "lock" -> 8 + numRetries

ExchangeRankMax == 8 + numRetries

\* how far NewClient is from its return or from the end of the program
InitRankMax == 1 + Len(InitCommands) * (ExchangeRankMax + 1)
BootRankMax == InitRankMax + 1 + replBootupTimeoutSeconds
NewClientRank ==
    IF nc.proc = "terminated" THEN 0
    ELSE CASE nc.pc = "returned" -> 0
           [] nc.pc = "init" ->
                1 + (Len(InitCommands) - nc.k) * (ExchangeRankMax + 1)
                  + ExchangeRank(Constructor)
           [] nc.pc = "boot" ->
                InitRankMax + 1 + (replBootupTimeoutSeconds - nc.j)
           [] nc.pc = "connect" ->
                BootRankMax + 1 + (replConnectTimeoutSeconds - nc.i)

\* the position of NewClient and of the call it is in
NewClientPosition == <<nc.pc, nc.i, nc.j, nc.k, th[Constructor]>>

\* every step of NewClient brings it nearer to its end
NewClientAdvances ==
    (nc.pc # "returned" /\ NewClientPosition' # NewClientPosition) =>
        NewClientRank' < NewClientRank

\* NewClient is never stuck before its end: a dial, a write and a read
\* return, and the one step that waits, Lock, finds the mutex free
NewClientCanStep ==
    (nc.proc = "running" /\ nc.pc # "returned") =>
        /\ nc.pc \in {"connect", "boot", "init"}
        /\ nc.pc \in {"connect", "boot"} => th[Constructor].pc = "idle"
        /\ th[Constructor].pc = "lock" => LockFree(Constructor)
        /\ th[Constructor].pc = "read" => th[Constructor].n < numRetries
        /\ th[Constructor].pc = "idle" => nc.k <= Len(InitCommands)

\* C21: NewClient dials at most replConnectTimeoutSeconds times in the
\* connect window and replBootupTimeoutSeconds times in the boot window, an
\* exchange reads at most numRetries times, no step of either loop waits
\* for ever and every step brings NewClient, and the call it is in, nearer
\* to the return (or to the end of the program): both loops end.
C21_RetryLoopsAreBounded ==
    /\ [](/\ nc.connectFails <= replConnectTimeoutSeconds
          /\ nc.bootFails <= replBootupTimeoutSeconds
          /\ nc.connectFails + nc.bootFails + nc.dials
                <= replConnectTimeoutSeconds + replBootupTimeoutSeconds
          /\ \A t \in Threads : th[t].n <= numRetries
          /\ NewClientRank \in 0..(BootRankMax + 1 + replConnectTimeoutSeconds)
          /\ NewClientCanStep)
    /\ [][NewClientAdvances]_vars

\* every dial of the connect window failed, a dial of the boot window
\* succeeded after failed ones, and the read loop of the second command of
\* initialize has used its budget
C21_Witness ==
    /\ nc.pc = "init" /\ nc.k = Len(InitCommands)
    /\ nc.connectFails = replConnectTimeoutSeconds
    /\ nc.bootFails > 0
    /\ th[Constructor].pc = "bytes" /\ th[Constructor].n = numRetries

\* ------------------------------------------------------------------------
\* The signal (SpecUpdates)

\* a signal is in the channel and the goroutine has not received one yet
SignalDelivered == bot.sigbuf > 0 /\ bot.sigpc = "wait"

\* the process was stopped by a panic, of main or of the launch goroutine
Panicked == nc.proc = "terminated" /\ nc.cause \in {"bot", "cmd"}

Holding == {"deadline", "write", "read", "bytes", "decode", "close", "unlock"}

\* the lock is held by the one call that is between Lock and Unlock
HeldByTheCallInside ==
    /\ \A t \in Threads : (mutex = t) <=> (th[t].pc \in Holding)
    /\ \A t \in Threads : th[t].pc # "idle" => ExchangeEnabled \/ nc.proc # "running"

\* a call takes the lock only when it is free, and returns only through
\* the one Unlock, which frees it
LockedOnceUnlockedOnce ==
    \A t \in Threads :
        /\ (mutex # t /\ mutex' = t) => (mutex = NoThread /\ th[t].pc = "lock")
        /\ (th[t].pc # "idle" /\ th'[t].pc = "idle") =>
              (th[t].pc = "unlock" /\ mutex = t /\ mutex' = NoThread)
        /\ (mutex = t /\ mutex' # t) => th'[t].pc = "idle"

\* C29: every path of Eval, LoadFile and Shutdown returns through the one
\* Unlock and frees the lock there, whatever error the call returns; no
\* call takes the lock while it is held; while a call is under way some
\* call can take a step; and every call returns (or the process ends).
C29_LockReleasedOnEveryPath ==
    /\ []HeldByTheCallInside
    /\ [][LockedOnceUnlockedOnce]_vars
    /\ \A t \in Threads :
          (th[t].pc # "idle") ~> (th[t].pc = "idle" \/ nc.proc = "terminated")

\* Shutdown is about to unlock after a failed write while a call of the
\* handler waits for the lock
C29_Witness ==
    /\ th[SigThread].pc = "unlock" /\ th[SigThread].err = "errWrite"
    /\ mutex = SigThread
    /\ th[MainThread].pc = "lock"

\* ------------------------------------------------------------------------
\* The read loop (Spec)

\* the step is an attempt of t's read loop whose Read returned an error
FailedRead(t) ==
    /\ th[t].pc = "read"
    /\ th'[t].n = th[t].n + 1
    /\ th'[t].reads = th[t].reads

\* the loop of t was ended by a read error and the call has not returned
BrokenByReadError(t) == th[t].pc # "idle" /\ th[t].readErr = "errRead"

\* C25: a Read error that is neither a timeout nor io.EOF ends the read
\* loop at that attempt, and the exchange makes no further attempt; an
\* attempt that timed out or returned io.EOF is followed by the next attempt
\* as long as fewer than numRetries attempts were made.
C25_OnlyHardReadErrorBreaks ==
    [][\A t \in Threads :
          /\ FailedRead(t) =>
                IF th'[t].readErr = "errRead"
                THEN th'[t].pc = "bytes"
                ELSE /\ th'[t].readErr \in {"errTimeout", "EOF"}
                     /\ th'[t].pc = IF th'[t].n < numRetries THEN "read"
                                                             ELSE "bytes"
          /\ BrokenByReadError(t) =>
                /\ th[t].pc # "read"
                /\ th'[t].pc # "read"
                /\ th'[t].n = th[t].n \/ th'[t].pc = "idle"]_vars

\* the loop was broken by a hard read error before its budget was used up,
\* after an attempt that read data
C25_Witness ==
    \E t \in Threads :
        /\ th[t].pc = "bytes" /\ th[t].readErr = "errRead"
        /\ th[t].n \in 2..(numRetries - 1)

\* C26 as stated: the read loop ends as soon as the buffer is non-empty or
\* the budget is used up: no read attempt is made with bytes in the buffer.
C26_LoopEndsOnFirstBytes ==
    \A t \in Threads : th[t].pc = "read" => th[t].buffer = <<>>

\* the step is an attempt of t's read loop whose Read returned bytes
GoodRead(t) ==
    /\ th[t].pc = "read"
    /\ th'[t].n = th[t].n + 1
    /\ th'[t].reads # th[t].reads

\* C26, amended: the read loop ends only when numRetries attempts were made
\* or a Read failed with a hard error; an attempt that made the buffer
\* non-empty is followed by the next attempt while the budget lasts.
C26_LoopEndsOnBudgetOrHardError ==
    [][\A t \in Threads :
          /\ GoodRead(t) =>
                /\ th'[t].buffer # <<>>
                /\ th'[t].pc = IF th'[t].n < numRetries THEN "read" ELSE "bytes"
          /\ (th[t].pc = "read" /\ th'[t].pc # "read") =>
                /\ th'[t].pc = "bytes"
                /\ th'[t].n = numRetries \/ th'[t].readErr = "errRead"]_vars

\* the loop used its whole budget although its first attempt read bytes
C26_Witness ==
    \E t \in Threads :
        /\ th[t].pc = "bytes" /\ th[t].n = numRetries
        /\ th[t].reads # <<>> /\ th[t].readErr = "errTimeout"

\* C27: when the read loop ended with a non-empty buffer, sendAndRecvBytes
\* returns the cleansed buffer and a nil error to the decoding, whatever the
\* reads of the loop returned: timeouts, io.EOF or a hard read error.
C27_NonEmptyBufferIsNoTransportError ==
    \A t \in Threads :
        (th[t].pc = "decode" /\ th[t].buffer # <<>>)
        => /\ th[t].err = "nil"
           /\ th[t].bts = cleanse(th[t].buffer)

\* bytes were accumulated and then a Read failed with a hard error
C27_Witness ==
    \E t \in Threads :
        /\ th[t].pc = "decode" /\ th[t].buffer # <<>>
        /\ th[t].readErr = "errRead"

\* C28: an exchange sets the read deadline once, after taking the lock and
\* before it writes the request, and no step between the write and the
\* return renews it; after an attempt that timed out every later attempt of
\* the exchange times out too and leaves buffer and stream as they were.
C28_OneDeadlinePerExchange ==
    [][\A t \in Threads :
          /\ (th'[t].pc = "deadline" /\ th[t].pc # "deadline")
                => th[t].pc = "lock"
          /\ (th'[t].pc = "write" /\ th[t].pc # "write")
                => (th[t].pc = "deadline" /\ ~expired')
          /\ (th[t].pc \in {"write", "read", "bytes"} /\ expired) => expired'
          /\ ( /\ th[t].pc = "read" /\ th[t].readErr = "errTimeout"
               /\ th'[t].n = th[t].n + 1 )
                => /\ th'[t].readErr = "errTimeout"
                   /\ th'[t].buffer = th[t].buffer
                   /\ pending' = pending]_vars

\* the first attempt read bytes, a later one timed out, and the bytes that
\* were still to be read stayed unread until the budget was used up
C28_Witness ==
    \E t \in Threads :
        /\ th[t].pc = "bytes" /\ th[t].n = numRetries
        /\ th[t].readErr = "errTimeout"
        /\ th[t].buffer # <<>> /\ pending # <<>>

\* the bytes of t's buffer that answer t's own request: the buffer without
\* the bytes that were unread in the stream when the request was written
OwnBytes(t) ==
    LET skip == IF th[t].stale < Len(th[t].buffer) THEN th[t].stale
                                                   ELSE Len(th[t].buffer)
    IN  SubSeq(th[t].buffer, skip + 1, Len(th[t].buffer))

\* C24: the records an Eval or LoadFile returns are the records of the
\* bytes the backend sent in answer to that call's request: bytes that an
\* earlier exchange left unread when its read loop ended are not part of the
\* result of a later call.
C24_RecordsAnswerOwnRequest ==
    \A t \in Threads :
        (th[t].pc = "unlock" /\ th[t].op \in {"Eval", "LoadFile"})
        => th[t].responses =
              sendAndRecvDecode(cleanse(OwnBytes(t)), "nil").responses

\* ------------------------------------------------------------------------
\* Properties of the nREPL client (SpecNrepl)

\* the response without the fields that are not part of an error
StatusAndExceptionOnly(r) ==
    [ZeroResp EXCEPT !.Status = r.Status, !.Ex = r.Ex, !.RootEx = r.RootEx]

\* C22: a response of the nREPL client is erroneous exactly when its
\* status holds a token, and the text of an erroneous response is the text
\* of its status tokens and its exception fields alone: it starts with the
\* first token and is the same whatever namespace, value, stdout and stderr
\* hold.
C22_StatusMakesTheResponseErroneous ==
    (nrepl.pc = "done" /\ nrepl.err = "nil") =>
        LET r == nrepl.received
        IN  /\ HasError(r) <=> r.Status # <<>>
            /\ r.Status # <<>> =>
                  /\ nrepl.msg = nreplRespToString(StatusAndExceptionOnly(r))
                  /\ IsPrefix(FormatV(r.Status[1]), nrepl.msg)
                  /\ nrepl.msg[Len(nrepl.msg)] = NL
            /\ (r.Status = <<>> /\ r.Ns # <<>>) =>
                  IsPrefix(r.Ns \o <<"=", ">", SP>> \o r.Value, nrepl.msg)

\* a reply with a status token and with namespace, value and stdout
C22_Witness ==
    /\ nrepl.pc = "done" /\ nrepl.err = "nil"
    /\ nrepl.received.Status # <<>>
    /\ nrepl.received.Ns # <<>>
    /\ nrepl.received.Value # <<>>
    /\ nrepl.received.Out # <<>>
    /\ nrepl.received.Ex # nrepl.received.RootEx

\* the reply is one of the top-level shapes the type switch names
SupportedShape == nrepl.reply.kind \in {"string", "int64", "list", "map"}

\* the text of the integers and lists of the model, written out
TextOfInt(i) ==
    CASE i = -7 -> <<"-", "7">>
      [] i = 0 -> <<"0">>
      [] i = 1 -> <<"1">>
      [] i = 7 -> <<"7">>
      [] i = 42 -> <<"4", "2">>

TextOfItem(v) == IF v.kind = "string" THEN v.str ELSE TextOfInt(v.int)

TextOfList(l) ==
    CASE Len(l) = 0 -> <<"[", "]">>
      [] Len(l) = 1 -> <<"[">> \o TextOfItem(l[1]) \o <<"]">>
      [] Len(l) = 2 -> <<"[">> \o TextOfItem(l[1]) \o <<SP>>
                              \o TextOfItem(l[2]) \o <<"]">>

\* the response holds the text in Value and nothing else
ValueOnly(r, text) == r = [ZeroResp EXCEPT !.Value = text]

\* the keys of the map that name a field of Resp, and those among them whose
\* value has another type than the field
KnownKeys(mp) == DOMAIN mp \cap DOMAIN respKeyMaps
MistypedKeys(mp) ==
    {k \in KnownKeys(mp) : mp[k].kind # FieldKind(respKeyMaps[k])}

\* every field of r holds what the key of the map that names it carries,
\* and the zero value when no key names it
FilledFromKeys(r, mp) ==
    \A f \in RespFields :
        IF \E k \in KnownKeys(mp) : respKeyMaps[k] = f
        THEN \E k \in KnownKeys(mp) :
                /\ respKeyMaps[k] = f
                /\ r[f] = IF f = "Status" THEN mp[k].items ELSE mp[k].str
        ELSE r[f] = <<>>

\* C23 as stated: a top-level string, integer or list yields a response
\* whose value is its text, a top-level map a response filled from its
\* keys, each with a nil error, and none of them an empty response.
C23_EveryShapeIsNonEmptySuccess ==
    (nrepl.pc = "returned" /\ SupportedShape) =>
        LET d == nrepl.reply
            r == nrepl.received
        IN  /\ nrepl.err = "nil"
            /\ r # ZeroResp
            /\ d.kind = "string" => ValueOnly(r, d.str)
            /\ d.kind = "int64" => ValueOnly(r, TextOfInt(d.int))
            /\ d.kind = "list" => ValueOnly(r, TextOfList(d.items))
            /\ d.kind = "map" => FilledFromKeys(r, d.map)

\* C23, amended: a top-level string, integer or list yields a response with
\* a nil error whose value is its text and whose other fields are empty; a
\* top-level map whose known keys carry values of the types of their fields
\* yields a response filled from those keys with a nil error; a map with a
\* known key of another type yields the empty response and an error.  The
\* response of a successful decoding is empty when the string is empty or no
\* known key of the map carries a non-empty value, and only then.
C23_ShapesDecodedByKind ==
    (nrepl.pc = "returned" /\ SupportedShape) =>
        LET d == nrepl.reply
            r == nrepl.received
        IN  /\ d.kind = "string" => (nrepl.err = "nil" /\ ValueOnly(r, d.str))
            /\ d.kind = "int64" =>
                  (nrepl.err = "nil" /\ ValueOnly(r, TextOfInt(d.int)))
            /\ d.kind = "list" =>
                  (nrepl.err = "nil" /\ ValueOnly(r, TextOfList(d.items)))
            /\ (d.kind = "map" /\ MistypedKeys(d.map) = {}) =>
                  (nrepl.err = "nil" /\ FilledFromKeys(r, d.map))
            /\ (d.kind = "map" /\ MistypedKeys(d.map) # {}) =>
                  (nrepl.err # "nil" /\ r = ZeroResp)
            /\ (nrepl.err = "nil" /\ r = ZeroResp) <=>
                  \/ d.kind = "string" /\ d.str = <<>>
                  \/ /\ d.kind = "map"
                     /\ \A k \in KnownKeys(d.map) :
                           d.map[k].kind = FieldKind(respKeyMaps[k])
                              /\ d.map[k].str = <<>>
                              /\ d.map[k].items = <<>>

\* a list of a string and an integer was decoded
C23_Witness ==
    /\ nrepl.pc = "returned"
    /\ nrepl.reply.kind = "list" /\ Len(nrepl.reply.items) = 2
    /\ nrepl.received.Value = <<"[", "a", SP, "7", "]">>

\* ------------------------------------------------------------------------
\* Calls after Shutdown (Spec)

\* C31: an Eval or LoadFile that takes the lock after Shutdown has closed
\* the connection fails when it sets the read deadline: it returns the
\* error of that step and no record, and it writes nothing to the
\* connection.
C31_CallAfterCloseFailsAtDeadline ==
    [][\A t \in Threads :
          (conn = "closed" /\ th[t].op \in {"Eval", "LoadFile"}) =>
              /\ th[t].pc \notin {"write", "read", "bytes"}
              /\ ~th[t].wrote
              /\ wire' = wire
              /\ th[t].pc = "unlock" =>
                    /\ th[t].err = "errDeadline"
                    /\ th[t].responses = <<>>]_vars

\* an Eval that ran on the closed connection is about to return
C31_Witness ==
    \E t \in Threads :
        /\ conn = "closed"
        /\ th[t].pc = "unlock" /\ th[t].op = "Eval"
        /\ th[t].err = "errDeadline"

\* ------------------------------------------------------------------------
\* Properties of handleUpdate (SpecHandleUpdate)

\* the sender has no username, or one that the configuration does not list
Unauthorized == upd.hasMessage /\ upd.username \in {"nil", "mallory"}

\* C32: for an update of a sender without a username or with a username
\* that is not allowed, handleUpdate calls neither Eval nor LoadFile,
\* downloads nothing and sends no chat action; when it is done it has sent
\* one message, which says that the sender is not allowed.
C32_UnauthorizedReachesNoBackend ==
    Unauthorized =>
        /\ upd.calls = <<>>
        /\ upd.downloads = 0
        /\ upd.file = "none"
        /\ ~upd.typing
        /\ upd.pc \in {"update", "send", "done"}
        /\ upd.pc = "done" =>
              /\ Len(upd.sent) = 1
              /\ upd.sent[1][Len(upd.sent[1])]
                    \in {" is not allowed to use this bot.",
                         "' is not allowed to use this bot."}

\* a document of a sender who is not allowed was answered
C32_Witness ==
    /\ upd.pc = "done" /\ upd.hasMessage
    /\ upd.username = "mallory" /\ upd.content = "document"
    /\ upd.sent # <<>>

\* the call of the client that handleUpdate made returned an error
CallFailed == upd.calls # <<>> /\ upd.err # "nil"

\* C33: when the Eval or LoadFile of an update returned an error, the user
\* is sent one message, which is not empty: "error: " and the error for free
\* text, the fixed failure messages for /publics and /reset, and "failed to
\* load file: " and the error for a document; it never is the text of
\* records.
C33_FailedCallIsAnsweredWithAnError ==
    (upd.pc = "done" /\ CallFailed) =>
        /\ Len(upd.sent) = 1
        /\ upd.sent[1] # <<>>
        /\ upd.sent[1] =
              CASE upd.content = "document" ->
                      <<"failed to load file: ", upd.err>>
                [] upd.text = commandPublics ->
                      <<"failed to list public definitions.">>
                [] upd.text = commandReset -> <<"failed to reset REPL.">>
                [] OTHER -> <<"error: ", upd.err>>
        /\ upd.received # <<>> =>
              upd.sent[1] # TrimSpace(RespToString(upd.received))

\* free text whose evaluation returned records and an error
C33_Witness ==
    /\ upd.pc = "done" /\ CallFailed
    /\ upd.content = "text"
    /\ upd.text \notin {commandStart, commandPublics, commandReset}
    /\ upd.received # <<>>

\* the call of the client returned no record and no error
EmptySuccess == upd.calls # <<>> /\ upd.err = "nil" /\ upd.received = <<>>

\* C34: handleUpdate sends a reply exactly when the trimmed message is not
\* empty, and then sends that message once.  Free text whose evaluation
\* returned no record and no error gets no reply; /reset in the same case is
\* answered with "nothing received from REPL.".
C34_ReplyIffMessageNotEmpty ==
    (upd.pc = "done" /\ upd.hasMessage) =>
        /\ upd.sent = IF upd.msg # <<>> THEN <<upd.msg>> ELSE <<>>
        /\ \A i \in 1..Len(upd.sent) :
              /\ upd.sent[i] # <<>>
              /\ Head(upd.sent[i]) \notin WhiteSpace
        /\ (EmptySuccess /\ upd.text \notin {commandPublics, commandReset})
              => upd.sent = <<>>
        /\ (EmptySuccess /\ upd.text = commandReset)
              => upd.sent = <<<<"nothing received from REPL.">>>>

\* free text was evaluated, nothing came back, and nothing was sent
C34_Witness ==
    /\ upd.pc = "done" /\ EmptySuccess
    /\ upd.content = "text" /\ upd.text = "(+ 40 2)"
    /\ upd.sent = <<>>

\* client.LoadFile has returned for the document of the update
LoadFileReturned == upd.calls = <<<<"LoadFile", upd.path>>>>

\* C37: the file of a downloaded document is removed only after LoadFile
\* has returned, and only when LoadFile returned no error; when LoadFile
\* returned an error the file is still there when handleUpdate is done.
C37_FileRemovedOnlyAfterSuccessfulLoad ==
    /\ upd.pc = "remove" => (LoadFileReturned /\ upd.err = "nil")
    /\ upd.file = "deleted" =>
          /\ LoadFileReturned
          /\ upd.err = "nil"
          /\ upd.removedAfter = "LoadFile"
    /\ (LoadFileReturned /\ upd.err # "nil") =>
          /\ upd.file = "present"
          /\ upd.pc \in {"send", "done"}
    /\ upd.pc = "loadfile" => upd.file = "present"

\* a document was loaded without an error and its file removed
C37_Witness ==
    /\ upd.pc = "done" /\ upd.content = "document"
    /\ LoadFileReturned /\ upd.err = "nil"
    /\ upd.file = "deleted"

\* ------------------------------------------------------------------------
\* The failure paths of the nREPL client (SpecNrepl)

\* the request was written and every attempt of the read loop timed out
AllReadsTimedOut ==
    /\ nrepl.wrote
    /\ nrepl.n = numRetries
    /\ nrepl.onlyTimeouts

\* C35: when the nREPL client wrote its request and all numRetries reads
\* timed out, sendAndRecv returns the zero response and the timeout error of
\* the last read, not nil.
C35_NreplAllTimeoutsIsAnError ==
    (nrepl.pc = "returned" /\ AllReadsTimedOut) =>
        /\ nrepl.received = ZeroResp
        /\ nrepl.err = "errTimeout"
        /\ nrepl.reply.kind = "empty"

\* the call returned after ten timeouts, to a backend that had an answer
C35_Witness ==
    /\ nrepl.pc = "returned" /\ AllReadsTimedOut
    /\ nrepl.sends.kind = "map"

\* the map without the keys that name no field of Resp
KnownPart(mp) == [k \in KnownKeys(mp) |-> mp[k]]

\* C36: a decoded map with a known key whose value has another type than
\* its field yields an error and the zero response, whichever keys were
\* copied before; keys that name no field are ignored: the response is
\* that of the map without them, and they cause no error.
C36_MistypedMapYieldsNoPartialRecord ==
    (nrepl.pc = "returned" /\ nrepl.reply.kind = "map") =>
        LET mp == nrepl.reply.map
        IN  IF MistypedKeys(mp) # {}
            THEN nrepl.err = "errFill" /\ nrepl.received = ZeroResp
            ELSE /\ nrepl.err = "nil"
                 /\ FilledFromKeys(nrepl.received, KnownPart(mp))

\* a map with a namespace, an integer as value and a key that names no
\* field was decoded
C36_Witness ==
    /\ nrepl.pc = "returned" /\ nrepl.reply.kind = "map"
    /\ {"ns", "value", "id"} \subseteq DOMAIN nrepl.reply.map
    /\ nrepl.reply.map["value"].kind = "int64"
    /\ nrepl.err = "errFill"

\* ------------------------------------------------------------------------
\* Properties of cleanse (SpecCleanse)

\* sub occurs in s
Contains(s, sub) ==
    \E i \in 1..(Len(s) - Len(sub) + 1) : SubSeq(s, i, i + Len(sub) - 1) = sub

\* C38: the output of cleanse contains none of the three invalid strings,
\* whatever the input, also when the removal of one occurrence brings the
\* pieces of another together.
C38_CleanseLeavesNoMarker ==
    cln.pc = "done" =>
        \A i \in 1..Len(invalidStrings) :
            ~Contains(cln.result, invalidStrings[i])

====
